---- MODULE Spec2Model ----
(***************************************************************************)
(* Verification model of the pose-estimation training framework:           *)
(* heatmap generation (draw_keypoints), sub-pixel maxima extraction and    *)
(* the PCA subspace estimation of the data modules.                        *)
(*                                                                         *)
(* Numbers.  Floating point values are modelled in fixed point.  Heatmap   *)
(* values and confidences are Q15 integers (One = 1.0); a value that       *)
(* becomes smaller than one Q15 unit is 0, as a float underflows to 0.0.   *)
(* Grid coordinates are held in half grid cells (Q1), image coordinates in *)
(* whole pixels, sigma in hundredths.  NaN is a reserved integer that      *)
(* every arithmetic helper propagates.                                     *)
(***************************************************************************)
EXTENDS Integers, Sequences, FiniteSets, TLC

(***************************************************************************)
(* Bounds of the model.                                                    *)
(***************************************************************************)
NumBodyParts == 1      \* body parts seen in each view
NumFrames == 2         \* labelled frames of the heatmap dataset

(***************************************************************************)
(* Program constants.                                                      *)
(***************************************************************************)
num_views == 2             \* TrackingDataModule.num_views
output_sigma == 125        \* DLCHeatmapDataset.output_sigma = 1.25
sigma_default == 100       \* draw_keypoints(..., sigma=1, ...)
sqrt_2pi == 2507           \* np.sqrt(2 * np.pi), per mille
normalize_off == FALSE
normalize_default == TRUE  \* draw_keypoints(..., normalize=True)

NumKeypoints == num_views * NumBodyParts

(***************************************************************************)
(* Floating point helpers.                                                 *)
(***************************************************************************)
NaN == -(2^30)
One == 2^15

isnan(v) == v = NaN

\* a * b / c on floats, c # 0; NaN in any operand gives NaN
MulDiv(a, b, c) == IF isnan(a) \/ isnan(b) \/ isnan(c) THEN NaN ELSE (a * b) \div c

Sub(a, b) == IF isnan(a) \/ isnan(b) THEN NaN ELSE a - b

Add(a, b) == IF isnan(a) \/ isnan(b) THEN NaN ELSE a + b

Square(a) == IF isnan(a) THEN NaN ELSE a * a

\* exp(-1 / (4 * 2 * sigma^2)) in Q15 by its Taylor series: the factor by
\* which the Gaussian falls when the squared distance grows by a quarter cell
ExpStep(sigma) ==
    LET a == (One * 10000) \div (8 * sigma * sigma)
        a2 == (a * a) \div One
        a3 == (a2 * a) \div One
        a4 == (a3 * a) \div One
    IN  One - a + (a2 \div 2) - (a3 \div 6) + (a4 \div 24)

RECURSIVE BuildExpTable(_, _)
BuildExpTable(tab, step) ==
    LET last == tab[Len(tab)]
    IN  IF last = 0 THEN tab
        ELSE BuildExpTable(Append(tab, (last * step) \div One), step)

Sigmas == {sigma_default, output_sigma}

\* ExpTable[sigma][q + 1] = exp(-q / (4 * 2 * sigma^2)), q in quarter cells^2
ExpTable == [s \in Sigmas |-> BuildExpTable(<<One>>, ExpStep(s))]

\* np.exp(-(q / 4) / (2 * sigma ** 2)) for a squared distance q (Q2)
np_exp(q, sigma) ==
    IF isnan(q) THEN NaN
    ELSE IF q + 1 > Len(ExpTable[sigma]) THEN 0
    ELSE ExpTable[sigma][q + 1]

(***************************************************************************)
(* draw_keypoints (datasets.py).  keypoints is the caller's array, one     *)
(* <<x, y>> row per keypoint in image pixels; the result is indexed        *)
(* [row + 1][column + 1][keypoint], the (out_height, out_width,            *)
(* n_keypoints) layout of the code.                                        *)
(***************************************************************************)
np_zeros(out_height, out_width, n_keypoints) ==
    [yy \in 1..out_height |-> [xx \in 1..out_width |-> [idx \in 1..n_keypoints |-> 0]]]

\* the rescaling with the two scale factors exchanged
rescale_keypoints_swapped(keypoints, height, width, out_height, out_width) ==
    [idx \in 1..Len(keypoints) |->
        << MulDiv(keypoints[idx][1], 2 * out_height, height),
           MulDiv(keypoints[idx][2], 2 * out_width, width) >>]

\* keypoints[:, 1] *= out_height / height ; keypoints[:, 0] *= out_width / width
\* (the rescaled copy is held in half grid cells)
rescale_keypoints(keypoints, height, width, out_height, out_width) ==
    [idx \in 1..Len(keypoints) |->
        << MulDiv(keypoints[idx][1], 2 * out_width, width),
           MulDiv(keypoints[idx][2], 2 * out_height, height) >>]

\* the caller's array after a call that rescales it in place
caller_keypoints_rescaled(keypoints, height, width, output_shape) ==
    [idx \in 1..Len(keypoints) |->
        << MulDiv(keypoints[idx][1], output_shape[2], width),
           MulDiv(keypoints[idx][2], output_shape[1], height) >>]

\* keypoints = keypoints.copy(): the caller's array after the call
caller_keypoints(keypoints, height, width, output_shape) == keypoints

\* the test of the x coordinate alone
any_nan_x_only(keypoint) == isnan(keypoint[1])

\* np.any(keypoint != keypoint)
any_nan(keypoint) == isnan(keypoint[1]) \/ isnan(keypoint[2])

\* the Gaussian centred with x along the rows and y along the columns
gaussian_at_transposed(keypoint, yy, xx, sigma) ==
    np_exp(Add(Square(Sub(2 * yy, keypoint[1])), Square(Sub(2 * xx, keypoint[2]))), sigma)

\* the Gaussian of one keypoint at grid cell (yy, xx), yy and xx from 0
gaussian_at(keypoint, yy, xx, sigma) ==
    np_exp(Add(Square(Sub(2 * yy, keypoint[2])), Square(Sub(2 * xx, keypoint[1]))), sigma)

RECURSIVE draw_loop(_, _, _, _)
draw_loop(confidence, keypoints, idx, sigma) ==
    IF idx > Len(keypoints) THEN confidence
    ELSE IF any_nan(keypoints[idx]) THEN draw_loop(confidence, keypoints, idx + 1, sigma)
    ELSE draw_loop(
            [yy \in DOMAIN confidence |-> [xx \in DOMAIN confidence[yy] |->
                [confidence[yy][xx] EXCEPT
                    ![idx] = gaussian_at(keypoints[idx], yy - 1, xx - 1, sigma)]]],
            keypoints, idx + 1, sigma)

\* v / (sigma * np.sqrt(2 * np.pi))
div_sigma_sqrt_2pi(v, sigma) == MulDiv(v, 1000, (sigma * sqrt_2pi) \div 100)

\* if not normalize: confidence /= sigma * np.sqrt(2 * np.pi)
normalize_step(confidence, sigma, normalize) ==
    IF ~normalize
    THEN [yy \in DOMAIN confidence |-> [xx \in DOMAIN confidence[yy] |->
            [idx \in DOMAIN confidence[yy][xx] |->
                div_sigma_sqrt_2pi(confidence[yy][xx][idx], sigma)]]]
    ELSE confidence

draw_keypoints(keypoints, height, width, output_shape, sigma, normalize) ==
    LET n_keypoints == Len(keypoints)
        out_height == output_shape[1]
        out_width == output_shape[2]
        scaled == rescale_keypoints(keypoints, height, width, out_height, out_width)
        confidence == draw_loop(np_zeros(out_height, out_width, n_keypoints),
                                scaled, 1, sigma)
    IN  normalize_step(confidence, sigma, normalize)

(***************************************************************************)
(* The heatmap dataset (datasets.py): output shape and the label heatmaps  *)
(* computed once at construction.                                          *)
(***************************************************************************)
downsample_factor_default == 2

\* (height // 2 ** downsample_factor, width // 2 ** downsample_factor)
dataset_output_shape(h, w, downsample_factor) ==
    << h \div (2 ^ downsample_factor), w \div (2 ^ downsample_factor) >>

\* permute(0, 3, 1, 2) for one frame: (H, W, K) becomes (K, H, W)
permute_KHW(confidence, n_keypoints) ==
    [idx \in 1..n_keypoints |->
        [yy \in DOMAIN confidence |-> [xx \in DOMAIN confidence[yy] |->
            confidence[yy][xx][idx]]]]

\* the label heatmaps of all frames, [frame][keypoint][row + 1][column + 1]
compute_heatmaps(lbls, h, w, out_shape) ==
    [f \in 1..Len(lbls) |->
        permute_KHW(draw_keypoints(lbls[f], h, w, out_shape, output_sigma,
                                   normalize_default),
                    Len(lbls[f]))]

\* a selection that takes every frame
index_select_all(lbls, indxs) == lbls

\* torch.index_select(labels, 0, indxs), indxs in ascending order
RECURSIVE index_select(_, _)
index_select(lbls, indxs) ==
    IF indxs = {} THEN <<>>
    ELSE LET last == CHOOSE i \in indxs : \A j \in indxs : j <= i
         IN  Append(index_select(lbls, indxs \ {last}), lbls[last])

\* get_fully_labeled_idxs: nan_check[:, :, 0] keeps the x coordinate of every
\* keypoint; the frames in which none of them is NaN, counted from 1
get_fully_labeled_idxs(lbls) ==
    {f \in 1..Len(lbls) : \A k \in 1..Len(lbls[f]) : ~isnan(lbls[f][k][1])}

\* self.height % 128 != 0 or self.height % 128 != 0
dims_not_divisible(h, w) == h % 128 # 0 \/ h % 128 # 0

\* DLCHeatmapDataset.__init__ from the check of the transformed image
\* dimensions on: what it raises and the fields it assigns
dataset_init(lbls, h, w, noNans, downsample_factor) ==
    IF dims_not_divisible(h, w)
    THEN [raised |-> "SystemExit", message_printed |-> TRUE, noNans |-> noNans,
          csv_labels |-> lbls, fully_labeled_idxs |-> {}, labels |-> lbls,
          downsample_factor |-> <<>>, output_shape |-> <<>>, label_heatmaps |-> <<>>]
    ELSE LET idxs == get_fully_labeled_idxs(lbls)
             kept == IF noNans THEN index_select(lbls, idxs) ELSE lbls
             shape == dataset_output_shape(h, w, downsample_factor)
         IN  [raised |-> IF Len(kept) = 0 THEN "IndexError" ELSE "none",
              message_printed |-> FALSE, noNans |-> noNans,
              csv_labels |-> lbls,
              fully_labeled_idxs |-> IF noNans THEN idxs ELSE {},
              labels |-> kept,
              downsample_factor |-> downsample_factor,
              output_shape |-> shape,
              label_heatmaps |-> compute_heatmaps(kept, h, w, shape)]

(***************************************************************************)
(* generate_heatmaps (utils/dataset_utils.py), the batched generator the   *)
(* tests compare with: keypoints [batch][keypoint] = <<x, y>>, result      *)
(* [batch][keypoint][row + 1][column + 1].                                 *)
(***************************************************************************)
generate_heatmaps(keypoints, h, w, out_shape, sigma) ==
    [b \in 1..Len(keypoints) |-> [k \in 1..Len(keypoints[b]) |->
        [py \in 1..out_shape[1] |-> [px \in 1..out_shape[2] |->
            LET x == keypoints[b][k][1]
                y == keypoints[b][k][2]
            IN  IF isnan(x) \/ isnan(y) THEN 0
                ELSE LET dx == 2 * (px - 1) - ((2 * x * out_shape[2]) \div w)
                         dy == 2 * (py - 1) - ((2 * y * out_shape[1]) \div h)
                     IN  np_exp(dx * dx + dy * dy, sigma)]]]]

(***************************************************************************)
(* SubPixelMaxima (utils/heatmap_tracker_utils.py).  An extractor is the   *)
(* record of its constructor arguments; run returns the keypoints          *)
(* [batch][2 * keypoints] in image pixels and the confidences              *)
(* [batch][keypoints] (Q15 times confidence_scale).                        *)
(***************************************************************************)
None == NaN - 1

Mul(a, b) == IF isnan(a) \/ isnan(b) THEN NaN ELSE a * b

Max(a, b) == IF a >= b THEN a ELSE b
Min(a, b) == IF a <= b THEN a ELSE b

\* row-major view of a 2D array with n_cols columns
flatten(slice, n_rows, n_cols) ==
    [i \in 1..(n_rows * n_cols) |-> slice[((i - 1) \div n_cols) + 1][((i - 1) % n_cols) + 1]]

\* flat index, from 0, of the first largest entry
argmax(flat) ==
    (CHOOSE i \in 1..Len(flat) :
        /\ \A j \in 1..Len(flat) : flat[j] <= flat[i]
        /\ \A j \in 1..(i - 1) : flat[j] < flat[i]) - 1

is_all_zero(slice) ==
    \A yy \in DOMAIN slice : \A xx \in DOMAIN slice[yy] : slice[yy][xx] = 0

\* half width of the neighbourhood window: the support of the Gaussian
window_radius(sigma) == (2 * sigma + 99) \div 100

\* the window enlarged by factor, every sample held over factor positions;
\* the smooth interpolation between the samples is not modelled
upsample(window, n_rows, n_cols, factor) ==
    [i \in 1..(n_rows * factor) |-> [j \in 1..(n_cols * factor) |->
        window[((i - 1) \div factor) + 1][((j - 1) \div factor) + 1]]]

\* steps 1 to 7: <<x, y, confidence>> of one [batch, keypoint] slice
locate_maximum(extractor, slice) ==
    LET n_rows == extractor.output_shape[1]
        n_cols == extractor.output_shape[2]
        flat == flatten(slice, n_rows, n_cols)
        idx == argmax(flat)
        conf == Mul(flat[idx + 1], extractor.confidence_scale)
        row == idx \div n_cols
        col == idx % n_cols
        radius == window_radius(extractor.output_sigma)
        r_lo == Max(0, row - radius)
        r_hi == Min(n_rows - 1, row + radius)
        c_lo == Max(0, col - radius)
        c_hi == Min(n_cols - 1, col + radius)
        w_rows == r_hi - r_lo + 1
        w_cols == c_hi - c_lo + 1
        window == [i \in 1..w_rows |-> [j \in 1..w_cols |-> slice[r_lo + i][c_lo + j]]]
        factor == extractor.upsample_factor
        up == upsample(window, w_rows, w_cols, factor)
        up_idx == argmax(flatten(up, w_rows * factor, w_cols * factor))
        up_row == up_idx \div (w_cols * factor)
        up_col == up_idx % (w_cols * factor)
        fine_row == r_lo * factor + up_row
        fine_col == c_lo * factor + up_col
    IN  << (fine_col * extractor.coordinate_scale) \div factor,
           (fine_row * extractor.coordinate_scale) \div factor,
           conf >>

\* the comparison that also drops a confidence equal to the threshold
below_threshold_inclusive(conf, threshold) == threshold # None /\ conf <= threshold

\* step 8: the confidence falls below the caller's threshold
below_threshold(conf, threshold) == threshold # None /\ conf < threshold

\* steps 8 and 9 for one slice
extract_keypoint(extractor, slice) ==
    LET found == locate_maximum(extractor, slice)
    IN  IF is_all_zero(slice) THEN <<NaN, NaN, 0>>
        ELSE IF below_threshold(found[3], extractor.threshold)
             THEN <<NaN, NaN, found[3]>>
        ELSE found

\* the keypoints of one batch item kept as <<x, y>> pairs
flatten_keypoints_pairs(found) ==
    [k \in 1..Len(found) |-> <<found[k][1], found[k][2]>>]

\* the keypoints of one batch item as one row x1, y1, x2, y2, ...
flatten_keypoints(found) ==
    [i \in 1..(2 * Len(found)) |-> found[(i + 1) \div 2][2 - (i % 2)]]

run(extractor, heatmaps) ==
    LET found == [b \in 1..Len(heatmaps) |-> [k \in 1..Len(heatmaps[b]) |->
                    extract_keypoint(extractor, heatmaps[b][k])]]
    IN  [keypoints |-> [b \in 1..Len(heatmaps) |-> flatten_keypoints(found[b])],
         confidence |-> [b \in 1..Len(heatmaps) |->
                            [k \in 1..Len(heatmaps[b]) |-> found[b][k][3]]]]

(***************************************************************************)
(* PCA on the labels (datamodules.py, datasets.py).  Arrays for the PCA    *)
(* are indexed [feature][sample] as arr_for_pca is; sklearn's PCA is       *)
(* modelled on the feature axes: its principal axes are the unit vectors   *)
(* of the features, in descending order of the variance of the feature.    *)
(***************************************************************************)
n_components == 4                           \* PCA(n_components=4, svd_solver="full")
components_to_keep_default == 3
empirical_epsilon_percentile_default == 90

\* format_mouse_data: data_arr [frame][keypoint] = <<x, y>>, the keypoints of
\* view v are keypoints (v - 1) * parts + 1 .. v * parts; the result has one
\* row per (view, coordinate) and one column per (frame, body part)
format_mouse_data(data_arr) ==
    LET parts == IF Len(data_arr) = 0 THEN 0 ELSE Len(data_arr[1]) \div num_views
    IN  [feat \in 1..(2 * num_views) |->
            [smp \in 1..(Len(data_arr) * parts) |->
                data_arr[((smp - 1) \div parts) + 1]
                        [((feat - 1) \div 2) * parts + ((smp - 1) % parts) + 1]
                        [((feat - 1) % 2) + 1]]]

n_samples_of(arr) == IF Len(arr) = 0 THEN 0 ELSE Len(arr[1])

column_has_nan(arr, smp) == \E feat \in 1..Len(arr) : isnan(arr[feat][smp])

RECURSIVE keep_columns(_, _, _)
keep_columns(row, keep, smp) ==
    IF smp > Len(row) THEN <<>>
    ELSE IF smp \in keep THEN <<row[smp]>> \o keep_columns(row, keep, smp + 1)
    ELSE keep_columns(row, keep, smp + 1)

\* clean_any_nans(data, dim=0): the columns without any NaN
clean_any_nans(arr) ==
    LET keep == {smp \in 1..n_samples_of(arr) : ~column_has_nan(arr, smp)}
    IN  [feat \in 1..Len(arr) |-> keep_columns(arr[feat], keep, 1)]

contains_nan(arr) == \E smp \in 1..n_samples_of(arr) : column_has_nan(arr, smp)

RECURSIVE SumSeq(_)
SumSeq(q) == IF q = <<>> THEN 0 ELSE q[1] + SumSeq(Tail(q))

\* n * sum(x^2) - sum(x)^2: the variance of a row times n^2
variance_of(row) ==
    Len(row) * SumSeq([i \in 1..Len(row) |-> row[i] * row[i]]) - SumSeq(row) * SumSeq(row)

unit_vector(feat, n_features) == [i \in 1..n_features |-> IF i = feat THEN 1 ELSE 0]

\* the features in descending order of variance, the lower index first on a tie
RECURSIVE principal_order(_, _)
principal_order(arr, feats) ==
    IF feats = {} THEN <<>>
    ELSE LET best == CHOOSE f \in feats : \A g \in feats :
                        \/ variance_of(arr[f]) > variance_of(arr[g])
                        \/ variance_of(arr[f]) = variance_of(arr[g]) /\ f <= g
         IN  <<best>> \o principal_order(arr, feats \ {best})

\* a fit that accepts any number of samples
pca_fit_unchecked(arr) ==
    LET order == principal_order(arr, 1..Len(arr))
        axes == [i \in 1..Len(arr) |-> unit_vector(order[i], Len(arr))]
    IN  [error |-> "none", fit_input |-> arr,
         principal_axes |-> axes,
         explained_variance |-> [i \in 1..n_components |-> variance_of(arr[order[i]])],
         components_ |-> SubSeq(axes, 1, n_components)]

\* pca.fit(arr.T): sklearn rejects NaN input and n_components larger than
\* min(n_samples, n_features)
pca_fit(arr) ==
    IF contains_nan(arr) THEN [error |-> "ValueError", fit_input |-> arr]
    ELSE IF n_components > Min(n_samples_of(arr), Len(arr))
         THEN [error |-> "ValueError", fit_input |-> arr]
    ELSE LET order == principal_order(arr, 1..Len(arr))
             axes == [i \in 1..Len(arr) |-> unit_vector(order[i], Len(arr))]
         IN  [error |-> "none", fit_input |-> arr,
              principal_axes |-> axes,
              explained_variance |-> [i \in 1..n_components |-> variance_of(arr[order[i]])],
              components_ |-> SubSeq(axes, 1, n_components)]

\* pca.components_[:components_to_keep]
kept_of(components_, components_to_keep) ==
    SubSeq(components_, 1, Min(components_to_keep, Len(components_)))

\* the slice that starts one component late
discarded_off_by_one(components_, components_to_keep) ==
    SubSeq(components_, components_to_keep + 2, Len(components_))

\* pca.components_[components_to_keep:]
discarded_of(components_, components_to_keep) ==
    SubSeq(components_, components_to_keep + 1, Len(components_))

\* np.round(num / den, 3) in thousandths; NumPy rounds a half to the even
\* neighbour and 0 / 0 is NaN
round_ratio(num, den) ==
    IF den = 0 THEN NaN
    ELSE LET q == (1000 * num) \div den
             r == (1000 * num) % den
         IN  IF 2 * r > den \/ (2 * r = den /\ q % 2 = 1) THEN q + 1 ELSE q

\* the two lines PCA_prints prints
pca_report(pca, components_to_keep) ==
    LET ratio == pca.explained_variance
        total == SumSeq(ratio)
    IN  [explained_variance_ratio_ |->
             [i \in 1..Len(ratio) |-> round_ratio(ratio[i], total)],
         total_explained_var |->
             round_ratio(SumSeq(SubSeq(ratio, 1, Min(components_to_keep, Len(ratio)))),
                         total)]

\* a report that leaves in the PCA only the components it reports on
PCA_prints_truncating(pca, components_to_keep) ==
    [returned |-> "None",
     pca |-> [pca EXCEPT !.components_ = SubSeq(@, 1, Min(components_to_keep, Len(@)))],
     report |-> pca_report(pca, components_to_keep)]

\* PCA_prints(pca, components_to_keep): what it returns, the PCA object after
\* the call and what it printed
PCA_prints(pca, components_to_keep) ==
    [returned |-> "None",
     pca |-> pca,
     report |-> pca_report(pca, components_to_keep)]

\* |arr.T . vector|
abs_projection(arr, smp, vector) ==
    LET terms == [feat \in 1..Len(arr) |-> Mul(arr[feat][smp], vector[feat])]
        dot == IF \E feat \in 1..Len(arr) : isnan(terms[feat]) THEN NaN ELSE SumSeq(terms)
    IN  IF isnan(dot) THEN NaN ELSE IF dot < 0 THEN -dot ELSE dot

\* the entry of rank k (from 0) of values in ascending order
kth_smallest(values, k) ==
    CHOOSE v \in {values[i] : i \in 1..Len(values)} :
        /\ Cardinality({i \in 1..Len(values) : values[i] < v}) <= k
        /\ Cardinality({i \in 1..Len(values) : values[i] <= v}) > k

\* np.percentile(values, q) with linear interpolation; NaN if any value is NaN
np_percentile(values, q) ==
    IF \E i \in 1..Len(values) : isnan(values[i]) THEN NaN
    ELSE LET pos == (Len(values) - 1) * q
             lo == pos \div 100
             hi == Min(lo + 1, Len(values) - 1)
         IN  kth_smallest(values, lo)
               + ((kth_smallest(values, hi) - kth_smallest(values, lo)) * (pos % 100)) \div 100

\* epsilon: one percentile per discarded component, over all samples of arr
epsilon_of(arr, discarded, q) ==
    [j \in 1..Len(discarded) |->
        np_percentile([smp \in 1..n_samples_of(arr) |-> abs_projection(arr, smp, discarded[j])], q)]

\* UnlabeledDataModule.computePCA_params: the exception it raises, the PCA
\* it fitted and the loss_param_dict it leaves.  subs is NoCall when setup
\* assigned no train_set, lpd is NoCall when loss_param_dict is None.
computePCA_params(lbls, subs, lpd, components_to_keep, empirical_epsilon_percentile) ==
    IF subs = <<>>
    THEN [error |-> "AttributeError", pca |-> <<>>, report |-> <<>>,
          loss_param_dict |-> lpd]
    ELSE LET data_arr == index_select(lbls, subs.train_set)
             arr_for_pca == format_mouse_data(data_arr)
             good_arr_for_pca == clean_any_nans(arr_for_pca)
             fitted == pca_fit(good_arr_for_pca)
         IN  IF fitted.error # "none"
             THEN [error |-> fitted.error, pca |-> fitted, report |-> <<>>,
                   loss_param_dict |-> lpd]
             ELSE LET printed == PCA_prints(fitted, components_to_keep)
                      pca == printed.pca
                      report == [returned |-> printed.returned,
                                 printed |-> printed.report]
                      kept == kept_of(pca.components_, components_to_keep)
                      discarded == discarded_of(pca.components_, components_to_keep)
                  IN  IF lpd = <<>>
                      THEN [error |-> "TypeError", pca |-> pca, report |-> report,
                            loss_param_dict |-> lpd]
                      ELSE [error |-> "none", pca |-> pca, report |-> report,
                            loss_param_dict |->
                                [pca |-> [kept_eigenvectors |-> kept,
                                          discarded_eigenvectors |-> discarded,
                                          epsilon |->
                                              epsilon_of(arr_for_pca, discarded,
                                                         empirical_epsilon_percentile)]]]

\* TrackingDataModule.computePPCA_params: the exception it raises, the PCA it
\* fitted and the pca_param_dict it leaves
computePPCA_params(lbls, subs, old_dict, components_to_keep, empirical_epsilon_percentile) ==
    IF subs = <<>>
    THEN [error |-> "AttributeError", pca |-> <<>>, report |-> <<>>,
          pca_param_dict |-> old_dict]
    ELSE LET data_arr == index_select(lbls, subs.train_set)
             arr_for_pca == format_mouse_data(data_arr)
             fitted == pca_fit(arr_for_pca)
         IN  IF fitted.error # "none"
             THEN [error |-> fitted.error, pca |-> fitted, report |-> <<>>,
                   pca_param_dict |-> old_dict]
             ELSE LET printed == PCA_prints(fitted, components_to_keep)
                      pca == printed.pca
                      kept == kept_of(pca.components_, components_to_keep)
                      discarded == discarded_of(pca.components_, components_to_keep)
                  IN  [error |-> "none", pca |-> pca,
                       report |-> [returned |-> printed.returned,
                                   printed |-> printed.report],
                       pca_param_dict |->
                           [kept_eigenvectors |-> kept,
                            discarded_eigenvectors |-> discarded,
                            epsilon |-> epsilon_of(arr_for_pca, discarded,
                                                   empirical_epsilon_percentile)]]

\* split_sizes_from_probabilities(datalen, 0.8, 0.1): the sizes of the three
\* subsets, which sum to datalen
split_sizes_from_probabilities(datalen) ==
    LET train_number == (datalen * 8) \div 10
        val_number == datalen \div 10
    IN  <<train_number, val_number, datalen - train_number - val_number>>

\* Python's round(datalen * num / 10): to the nearest integer, a half to the
\* even one
round(datalen, num) ==
    LET floor == (datalen * num) \div 10
        rest == (datalen * num) % 10
    IN  IF rest > 5 \/ (rest = 5 /\ floor % 2 = 1) THEN floor + 1 ELSE floor

\* the rounded sizes without the correction
tracking_split_sizes_uncorrected(datalen) ==
    <<round(datalen, 8), round(datalen, 1), round(datalen, 1)>>

\* the sizes TrackingDataModule.setup passes to random_split
tracking_split_sizes(datalen) ==
    LET total == round(datalen, 8) + round(datalen, 1) + round(datalen, 1)
    IN  IF total > datalen THEN <<round(datalen, 8) - 1, round(datalen, 1), round(datalen, 1)>>
        ELSE IF total < datalen
             THEN <<round(datalen, 8) + 1, round(datalen, 1), round(datalen, 1)>>
        ELSE <<round(datalen, 8), round(datalen, 1), round(datalen, 1)>>

\* random_split(fulldataset, sizes): the ways to deal the frames into three
\* subsets of these sizes
random_split(datalen, sizes) ==
    LET subsets_of(frames, size) == {q \in SUBSET frames : Cardinality(q) = size}
    IN  IF sizes[1] + sizes[2] + sizes[3] # datalen THEN {}
        ELSE UNION {{[train_set |-> tr, valid_set |-> va,
                      test_set |-> ((1..datalen) \ tr) \ va] :
                        va \in subsets_of((1..datalen) \ tr, sizes[2])} :
                            tr \in subsets_of(1..datalen, sizes[1])}

\* BaseDataModule.setup: the subsets after the call; split is what
\* random_split returns
base_setup(use_deterministic, old_subsets, split) ==
    IF use_deterministic THEN old_subsets ELSE split

\* TrackingDataModule.setup
tracking_setup(mode, old_subsets, split) ==
    IF mode = "deterministic" THEN old_subsets ELSE split

\* DataLoader(self.train_set, ...), DataLoader(self.valid_set, ...) or
\* DataLoader(self.test_set, ...): the read of an attribute that was never
\* assigned raises
labeled_loader(subs, name) ==
    IF subs = <<>> THEN [raised |-> "AttributeError", loader |-> <<>>]
    ELSE [raised |-> "none", loader |-> [kind |-> "DataLoader", frames |-> subs[name]]]

\* train_dataloader of BaseDataModule and of TrackingDataModule
train_dataloader(dm, subs) ==
    IF dm.class = "TrackingDataModule" /\ dm.use_unlabeled_frames
    THEN LET labeled == labeled_loader(subs, "train_set")
         IN  IF labeled.raised # "none" THEN labeled
             ELSE IF ~dm.semi_supervised_loader
             THEN [raised |-> "AttributeError", loader |-> <<>>]
             ELSE [raised |-> "none",
                   loader |-> [kind |-> "dict", labeled |-> labeled.loader,
                               unlabeled |-> "semi_supervised_loader"]]
    ELSE labeled_loader(subs, "train_set")

val_dataloader(dm, subs) == labeled_loader(subs, "valid_set")

test_dataloader(dm, subs) == labeled_loader(subs, "test_set")

(***************************************************************************)
(* The semi-supervised tracker (heatmap_tracker.py) and its unsupervised   *)
(* losses.  Loss values and weights are integers.                          *)
(***************************************************************************)
\* predicted keypoints [frame][2 * keypoint] as [frame][keypoint] = <<x, y>>
reshape_keypoints(keypoints) ==
    [f \in 1..Len(keypoints) |->
        [k \in 1..(Len(keypoints[f]) \div 2) |->
            <<keypoints[f][2 * k - 1], keypoints[f][2 * k]>>]]

\* the contribution without the clamp at zero
excess(projection, epsilon) ==
    IF isnan(projection) THEN 0 ELSE Sub(projection, epsilon)

\* max(0, |projection| - epsilon); a NaN projection is masked
hinge(projection, epsilon) ==
    IF isnan(projection) THEN 0
    ELSE IF isnan(epsilon) THEN NaN
    ELSE Max(0, projection - epsilon)

\* the contributions [discarded component][sample] of the PCA loss
pca_contributions(keypoints, discarded_eigenvectors, epsilon) ==
    LET arr == format_mouse_data(reshape_keypoints(keypoints))
    IN  [j \in 1..Len(discarded_eigenvectors) |->
            [smp \in 1..n_samples_of(arr) |->
                hinge(abs_projection(arr, smp, discarded_eigenvectors[j]), epsilon[j])]]

RECURSIVE SumNaN(_)
SumNaN(q) == IF q = <<>> THEN 0 ELSE Add(q[1], SumNaN(Tail(q)))

\* the PCA-reprojection loss: the sum of its contributions
pca_loss(keypoints, discarded_eigenvectors, epsilon) ==
    LET contributions == pca_contributions(keypoints, discarded_eigenvectors, epsilon)
    IN  SumNaN([j \in 1..Len(contributions) |-> SumNaN(contributions[j])])

\* the temporal loss: the coordinate changes between consecutive frames, a
\* change with a NaN end is masked
temporal_loss(keypoints) ==
    LET change(f, i) ==
            IF isnan(keypoints[f][i]) \/ isnan(keypoints[f + 1][i]) THEN 0
            ELSE IF keypoints[f + 1][i] >= keypoints[f][i]
                 THEN keypoints[f + 1][i] - keypoints[f][i]
            ELSE keypoints[f][i] - keypoints[f + 1][i]
    IN  SumNaN([f \in 1..(Len(keypoints) - 1) |->
                    SumNaN([i \in 1..Len(keypoints[f]) |-> change(f, i)])])

\* loss_func(predicted_us_keypoints, **loss_params[loss_name])
loss_func(loss_name, keypoints, params) ==
    IF loss_name = "pca"
    THEN pca_loss(keypoints, params.subspace.discarded_eigenvectors, params.subspace.epsilon)
    ELSE temporal_loss(keypoints)

\* the exception the loop over the losses raises at loss_name, "none" if none
loss_error(loss_name, loss_params) ==
    IF loss_params = <<>> THEN "TypeError"
    ELSE IF loss_name = "pca" /\ loss_params[loss_name].subspace = <<>> THEN "TypeError"
    ELSE "none"

\* the total that also adds the supervised RMSE
total_with_rmse(supervised_loss, supervised_rmse, add_losses) ==
    supervised_loss + supervised_rmse + SumNaN(add_losses)

\* tot_loss: the supervised loss and every add_loss
total_loss(supervised_loss, supervised_rmse, add_losses) ==
    Add(supervised_loss, SumNaN(add_losses))

\* a step that also clears the epsilon it has used
training_step_clearing(tracker, batch) ==
    [error |-> "none", add_losses |-> <<>>,
     supervised_loss |-> batch.supervised_loss,
     supervised_rmse |-> batch.supervised_rmse,
     loss |-> batch.supervised_loss,
     loss_params |->
        IF tracker.loss_params = <<>> \/ tracker.loss_params["pca"].subspace = <<>>
        THEN tracker.loss_params
        ELSE [tracker.loss_params EXCEPT !["pca"].subspace.epsilon = <<>>]]

\* SemiSupervisedHeatmapTracker.training_step on a batch whose network
\* outputs are given: the exception raised, the logged values, the returned
\* loss and the loss_params the step leaves in the tracker
training_step(tracker, batch) ==
    LET names == tracker.loss_function_dict
        errors == [i \in 1..Len(names) |-> loss_error(names[i], tracker.loss_params)]
        add_losses == [i \in 1..Len(names) |->
                          Mul(tracker.loss_params[names[i]].weight,
                              loss_func(names[i], batch.predicted_us_keypoints,
                                        tracker.loss_params[names[i]]))]
    IN  IF \E i \in 1..Len(names) : errors[i] # "none"
        THEN [error |-> "TypeError", loss_params |-> tracker.loss_params]
        ELSE [error |-> "none",
              add_losses |-> add_losses,
              supervised_loss |-> batch.supervised_loss,
              supervised_rmse |-> batch.supervised_rmse,
              loss |-> total_loss(batch.supervised_loss, batch.supervised_rmse, add_losses),
              loss_params |-> tracker.loss_params]

(***************************************************************************)
(* The functions that build the pipeline from the configuration            *)
(* (utils/scripts.py) and the training script (scripts/train_hydra.py).    *)
(* An object is known by the name of its class, "none" while not built.    *)
(***************************************************************************)
\* a scale that grows linearly with the downsample factor
coordinate_scale_linear(downsample_factor) == 2 * downsample_factor

\* HeatmapTracker.coordinate_scale
coordinate_scale(downsample_factor) == 2 ^ downsample_factor

\* threshold: Optional[float] = None
threshold_default == None

\* HeatmapTracker.__init__: the attributes its extractor is built from
heatmap_tracker_init(downsample_factor, out_shape, upsample_factor, confidence_scale, threshold) ==
    [class |-> "HeatmapTracker",
     downsample_factor |-> downsample_factor,
     output_shape |-> out_shape,
     output_sigma |-> output_sigma,
     upsample_factor |-> upsample_factor,
     confidence_scale |-> confidence_scale,
     threshold |-> threshold]

\* SemiSupervisedHeatmapTracker.__init__: the call of super().__init__ passes
\* every argument but threshold
semi_supervised_heatmap_tracker_init(downsample_factor, out_shape, upsample_factor, confidence_scale, threshold) ==
    [heatmap_tracker_init(downsample_factor, out_shape, upsample_factor,
                          confidence_scale, threshold_default)
        EXCEPT !.class = "SemiSupervisedHeatmapTracker"]

\* the property HeatmapTracker.SubPixMax
tracker_SubPixMax(tracker) ==
    [output_shape |-> tracker.output_shape,
     output_sigma |-> tracker.output_sigma,
     upsample_factor |-> tracker.upsample_factor,
     coordinate_scale |-> coordinate_scale(tracker.downsample_factor),
     confidence_scale |-> tracker.confidence_scale,
     threshold |-> tracker.threshold]

\* check_if_semi_supervised(cfg.model.losses_to_use)
check_if_semi_supervised(losses_to_use) == Len(losses_to_use) > 0

\* the truth value Python gives a tuple
tuple_is_true(tuple) == Len(tuple) > 0

\* (cfg.training.gpu_id, int): the truth value of the pair
gpu_id_check(gpu_id) == tuple_is_true(<<gpu_id, "int">>)

\* get_dataset(cfg, data_dir, imgaug_transform)
get_dataset(config) ==
    IF config.model_type = "regression"
    THEN [raised |-> "none", dataset |-> "BaseTrackingDataset"]
    ELSE IF config.model_type = "heatmap"
    THEN [raised |-> "none", dataset |-> "HeatmapDataset"]
    ELSE [raised |-> "NotImplementedError", dataset |-> "none"]

\* get_datamodule(cfg, dataset, video_dir)
get_datamodule(config, dataset) ==
    IF ~check_if_semi_supervised(config.losses_to_use)
    THEN IF ~gpu_id_check(config.gpu_id)
         THEN [raised |-> "NotImplementedError", data_module |-> "none"]
         ELSE [raised |-> "none", data_module |-> "BaseDataModule"]
    ELSE IF ~gpu_id_check(config.gpu_id)
         THEN [raised |-> "NotImplementedError", data_module |-> "none"]
         ELSE [raised |-> "none", data_module |-> "UnlabeledDataModule"]

\* the keys get_loss_factories writes into the parameters of a loss
loss_specific_keys(loss_name) ==
    IF loss_name \in {"unimodal_mse", "unimodal_wasserstein"}
    THEN {"original_image_height", "original_image_width",
          "downsampled_image_height", "downsampled_image_width"}
    ELSE IF loss_name = "pca_multiview" THEN {"mirrored_column_matches"}
    ELSE {}

\* the loop of get_loss_factories over losses_to_use from position i: the
\* parameters it leaves in cfg.losses and the exception it raises
RECURSIVE collect_unsupervised(_, _, _)
collect_unsupervised(config, losses, i) ==
    IF i > Len(config.losses_to_use) THEN [raised |-> "none", losses |-> losses]
    ELSE LET loss_name == config.losses_to_use[i]
             named == [losses EXCEPT ![loss_name] = @ \cup {"loss_name"}]
         IN  IF loss_name \in {"unimodal_mse", "unimodal_wasserstein"}
                 /\ config.model_type = "regression"
             THEN [raised |-> "NotImplementedError", losses |-> named]
             ELSE collect_unsupervised(config,
                      [named EXCEPT ![loss_name] = @ \cup loss_specific_keys(loss_name)],
                      i + 1)

\* the image dimensions get_loss_factories records for a unimodal loss
unimodal_image_dims(config) ==
    LET height_og == config.image_resize_dims[1]
        width_og == config.image_resize_dims[2]
    IN  [original_image_height |-> height_og,
         original_image_width |-> width_og,
         downsampled_image_height |-> height_og \div (2 ^ config.downsample_factor),
         downsampled_image_width |-> width_og \div (2 ^ config.downsample_factor)]

\* get_loss_factories(cfg, data_module)
get_loss_factories(config) ==
    LET collected == collect_unsupervised(config, config.losses, 1)
        supervised == IF config.model_type = "heatmap"
                      THEN "heatmap_" \o config.heatmap_loss_type
                      ELSE config.model_type
    IN  [raised |-> collected.raised,
         losses |-> collected.losses,
         loss_factories |->
            IF collected.raised # "none" THEN <<>>
            ELSE [supervised |-> {supervised},
                  unsupervised |->
                      [loss_name \in {config.losses_to_use[i] :
                                        i \in 1..Len(config.losses_to_use)} |->
                          IF loss_name \in {"unimodal_mse", "unimodal_wasserstein"}
                          THEN unimodal_image_dims(config)
                          ELSE <<>>]]]

\* a get_model that builds a regression tracker for every unknown type
get_model_lenient(config) ==
    [raised |-> "none",
     model |-> IF config.model_type = "heatmap" THEN "HeatmapTracker"
               ELSE "RegressionTracker"]

\* get_model(cfg, data_module, loss_factories)
get_model(config) ==
    IF ~check_if_semi_supervised(config.losses_to_use)
    THEN IF config.model_type = "regression"
         THEN [raised |-> "none", model |-> "RegressionTracker"]
         ELSE IF config.model_type = "heatmap"
         THEN [raised |-> "none", model |-> "HeatmapTracker"]
         ELSE [raised |-> "NotImplementedError", model |-> "none"]
    ELSE IF config.model_type = "regression"
         THEN [raised |-> "none", model |-> "SemiSupervisedRegressionTracker"]
         ELSE IF config.model_type = "heatmap"
         THEN [raised |-> "none", model |-> "SemiSupervisedHeatmapTracker"]
         ELSE [raised |-> "NotImplementedError", model |-> "none"]

\* train(cfg) of train_hydra.py; datamodule_raises is the exception the
\* constructor of the data module raises, "none" if it returns
train(config, datamodule_raises) ==
    LET dataset == IF config.model_type = "regression" THEN "BaseTrackingDataset"
                   ELSE IF config.model_type = "heatmap" THEN "HeatmapDataset"
                   ELSE "none"
        data_module == IF ~config.semi_supervised THEN "BaseDataModule"
                       ELSE "UnlabeledDataModule"
        tracker == IF ~config.semi_supervised
                   THEN IF config.model_type = "regression" THEN "RegressionTracker"
                        ELSE IF config.model_type = "heatmap" THEN "HeatmapTracker"
                        ELSE "exit"
                   ELSE IF config.model_type = "regression"
                        THEN "SemiSupervisedRegressionTracker"
                        ELSE IF config.model_type = "heatmap"
                        THEN "SemiSupervisedHeatmapTracker"
                        ELSE "unbound"
    IN  IF dataset = "none"
        THEN [raised |-> "NotImplementedError", dataset |-> "none", data_module |-> "none",
              model |-> "none", fit |-> FALSE]
        ELSE IF datamodule_raises # "none"
        THEN [raised |-> datamodule_raises, dataset |-> dataset, data_module |-> "none",
              model |-> "none", fit |-> FALSE]
        ELSE IF tracker = "exit"
        THEN [raised |-> "SystemExit", dataset |-> dataset, data_module |-> data_module,
              model |-> "none", fit |-> FALSE]
        ELSE IF tracker = "unbound"
        THEN [raised |-> "UnboundLocalError", dataset |-> dataset,
              data_module |-> data_module, model |-> "none", fit |-> FALSE]
        ELSE [raised |-> "none", dataset |-> dataset, data_module |-> data_module,
              model |-> tracker, fit |-> TRUE]

(***************************************************************************)
(* Inputs: labelled keypoints in image pixels.  The positions cover a      *)
(* missing x, a missing y, a grid-cell centre, positions halfway between   *)
(* cells and positions outside the grid.                                   *)
(***************************************************************************)
KeypointChoices ==
    << <<4, 0>>, <<NaN, 4>>, <<2, 4>>, <<4, NaN>>, <<-16, 4>>,
       <<4, 8>>, <<NaN, NaN>>, <<2, 2>>, <<-40, -40>> >>

LabelRow(r) ==
    [k \in 1..NumKeypoints |->
        KeypointChoices[((r + 4 * (k - 1)) % Len(KeypointChoices)) + 1]]

LabelRows == {LabelRow(r) : r \in 0..(Len(KeypointChoices) - 1)}

\* the label arrays of the datasets: consecutive rows, one per frame
LabelSets ==
    {[f \in 1..NumFrames |-> LabelRow(r + f - 1)] : r \in 0..(Len(KeypointChoices) - 1)}

\* <<height, width, output_shape>> of direct draw_keypoints calls
DrawShapes == { <<8, 8, <<2, 2>> >>, <<12, 8, <<3, 2>> >>, <<8, 6, <<2, 3>> >> }

\* <<height, width>> of the transformed images of a dataset
ImageShapes == { <<8, 8>>, <<12, 8>> }

NoCall == <<>>

VARIABLES
    labels,         \* dataset.labels: [frame][keypoint] = <<x, y>>
    height,         \* dataset.height (transformed image)
    width,          \* dataset.width
    dk_call,        \* the last direct call of draw_keypoints and its result
    output_shape,   \* dataset.output_shape
    label_heatmaps, \* dataset.label_heatmaps
    dataset_call,   \* the arguments and the outcome of the dataset constructor
    torch_heatmap,  \* the batch made by generate_heatmaps
    SubPixMax,      \* the extractor under test
    og_run,         \* SubPixMax.run on the stored label heatmaps
    torch_run,      \* SubPixMax.run on the generated heatmaps
    datamodule,     \* the constructed data module, of class "none" before
    subsets,        \* its train_set, valid_set, test_set (frame indices) once assigned
    loss_param_dict, \* UnlabeledDataModule.loss_param_dict
    pca_param_dict, \* TrackingDataModule.pca_param_dict once assigned
    pca_call,       \* the arguments and the PCA of the last fit
    error,          \* the exception that ended the run, "none" while it runs
    model,          \* the constructed tracker
    step_call,      \* the batch and the result of the last training_step
    cfg,            \* the configuration the script functions are called with
    built,          \* what the script functions have built, and what they raised
    split_call,     \* a dataset length and the sizes setup computes for it
    loader_call     \* the last dataloader method called on the data module and its result

dataset_vars == <<labels, height, width, output_shape, label_heatmaps, dataset_call>>
extract_vars == <<torch_heatmap, SubPixMax, og_run, torch_run>>
train_vars == <<model, step_call>>
script_vars == <<cfg, built>>
module_vars == <<datamodule, subsets, loss_param_dict, pca_param_dict, pca_call, error>>
vars == <<labels, height, width, dk_call, output_shape, label_heatmaps, dataset_call,
          torch_heatmap, SubPixMax, og_run, torch_run,
          datamodule, subsets, loss_param_dict, pca_param_dict, pca_call, error,
          model, step_call, cfg, built, split_call, loader_call>>

TypeOK ==
    /\ labels \in LabelSets
    /\ <<height, width>> \in ImageShapes

InitDataset ==
    /\ labels \in LabelSets
    /\ \E s \in ImageShapes : height = s[1] /\ width = s[2]

\* no data module constructed
InitNoModule ==
    /\ datamodule = [class |-> "none"]
    /\ subsets = NoCall
    /\ loss_param_dict = NoCall
    /\ pca_param_dict = NoCall
    /\ pca_call = NoCall
    /\ error = "none"

\* no tracker constructed, no script function called
InitNoRun ==
    /\ model = NoCall
    /\ step_call = NoCall
    /\ cfg = NoCall
    /\ built = NoCall
    /\ split_call = NoCall

\* labels loaded, no heatmap computed yet
InitDraw ==
    /\ InitDataset
    /\ dk_call = NoCall
    /\ output_shape = dataset_output_shape(height, width, downsample_factor_default)
    /\ label_heatmaps = NoCall
    /\ torch_heatmap = NoCall /\ SubPixMax = NoCall
    /\ og_run = NoCall /\ torch_run = NoCall
    /\ InitNoModule
    /\ dataset_call = NoCall
    /\ loader_call = NoCall
    /\ InitNoRun

\* a caller draws the heatmap of one labelled frame
DrawKeypoints(idx, shape, sigma, normalize) ==
    /\ dk_call' = [idx |-> idx,
                   keypoints |-> labels[idx], height |-> shape[1], width |-> shape[2],
                   output_shape |-> shape[3], sigma |-> sigma, normalize |-> normalize,
                   confidence |-> draw_keypoints(labels[idx], shape[1], shape[2],
                                                 shape[3], sigma, normalize)]
    /\ labels' = [labels EXCEPT
                    ![idx] = caller_keypoints(labels[idx], shape[1], shape[2], shape[3])]
    /\ UNCHANGED <<height, width, output_shape, label_heatmaps, dataset_call,
                   extract_vars, module_vars,
                   train_vars, script_vars, split_call, loader_call>>

NextDraw ==
    \E idx \in 1..NumFrames, shape \in DrawShapes, sigma \in Sigmas, normalize \in BOOLEAN :
        DrawKeypoints(idx, shape, sigma, normalize)

SpecDraw == InitDraw /\ [][NextDraw]_vars

(***************************************************************************)
(* The extractor on the heatmaps of a constructed dataset, as the tests    *)
(* drive it.                                                               *)
(***************************************************************************)
Thresholds == {None, One, 256 * One}
ConfidenceScales == {1, 255}
UpsampleFactors == {1, 2}

\* the dataset after construction: the label heatmaps are computed
InitExtract ==
    /\ InitDataset
    /\ dk_call = NoCall
    /\ output_shape = dataset_output_shape(height, width, downsample_factor_default)
    /\ label_heatmaps = compute_heatmaps(labels, height, width, output_shape)
    /\ torch_heatmap = NoCall /\ SubPixMax = NoCall
    /\ og_run = NoCall /\ torch_run = NoCall
    /\ InitNoModule
    /\ dataset_call = NoCall
    /\ loader_call = NoCall
    /\ InitNoRun

\* generate_heatmaps(gt_keypts, height, width, output_shape) on the first
\* batch_size frames
GenerateHeatmaps(batch_size) ==
    /\ torch_heatmap' = generate_heatmaps(SubSeq(labels, 1, batch_size), height, width,
                                          output_shape, output_sigma)
    /\ UNCHANGED <<dataset_vars, dk_call, SubPixMax, og_run, torch_run, module_vars,
                   train_vars, script_vars, split_call, loader_call>>

\* SubPixelMaxima(output_shape, output_sigma, upsample_factor,
\*                coordinate_scale, confidence_scale, threshold)
MakeSubPixMax(threshold, confidence_scale, upsample_factor) ==
    /\ SubPixMax = NoCall
    /\ SubPixMax' = [output_shape |-> output_shape, output_sigma |-> output_sigma,
                     upsample_factor |-> upsample_factor,
                     coordinate_scale |-> 2 ^ downsample_factor_default,
                     confidence_scale |-> confidence_scale, threshold |-> threshold]
    /\ UNCHANGED <<dataset_vars, dk_call, torch_heatmap, og_run, torch_run, module_vars,
                   train_vars, script_vars, split_call, loader_call>>

\* SubPixMax.run(gt_heatmap) on the first batch_size stored heatmaps
RunOnLabelHeatmaps(batch_size) ==
    /\ SubPixMax # NoCall
    /\ og_run' = [heatmaps |-> SubSeq(label_heatmaps, 1, batch_size),
                  out |-> run(SubPixMax, SubSeq(label_heatmaps, 1, batch_size))]
    /\ UNCHANGED <<dataset_vars, dk_call, torch_heatmap, SubPixMax, torch_run, module_vars,
                   train_vars, script_vars, split_call, loader_call>>

\* SubPixMax.run(torch_heatmap)
RunOnTorchHeatmap ==
    /\ SubPixMax # NoCall
    /\ torch_heatmap # NoCall
    /\ torch_run' = [heatmaps |-> torch_heatmap, out |-> run(SubPixMax, torch_heatmap)]
    /\ UNCHANGED <<dataset_vars, dk_call, torch_heatmap, SubPixMax, og_run, module_vars,
                   train_vars, script_vars, split_call, loader_call>>

NextExtract ==
    \/ \E batch_size \in 1..NumFrames : GenerateHeatmaps(batch_size)
    \/ \E threshold \in Thresholds, confidence_scale \in ConfidenceScales,
          upsample_factor \in UpsampleFactors :
            MakeSubPixMax(threshold, confidence_scale, upsample_factor)
    \/ \E batch_size \in 1..NumFrames : RunOnLabelHeatmaps(batch_size)
    \/ RunOnTorchHeatmap

SpecExtract == InitExtract /\ [][NextExtract]_vars

(***************************************************************************)
(* The data modules and their PCA on the training labels.                  *)
(***************************************************************************)
PCAFrames == 7
MissingFrames == 2

\* the labels of frame f: every keypoint labelled, or the x of the first
\* keypoint missing, or the y of the last one
PCALabelRow(f, kind) ==
    [k \in 1..NumKeypoints |->
        IF kind = "nan_x" /\ k = 1 THEN <<NaN, 2 * f>>
        ELSE IF kind = "nan_y" /\ k = NumKeypoints THEN <<2 * f, NaN>>
        ELSE <<2 * ((f * f + 3 * k) % 7), 2 * ((f * k + k) % 5)>>]

\* the first MissingFrames frames may miss a keypoint
LabelKinds == {"labelled", "nan_x", "nan_y"}
PCALabelSets ==
    {[f \in 1..PCAFrames |->
        PCALabelRow(f, IF f <= MissingFrames THEN kinds[f] ELSE "labelled")] :
            kinds \in [1..MissingFrames -> LabelKinds]}

ComponentsToKeep == {2, components_to_keep_default, 4}
Percentiles == {50, empirical_epsilon_percentile_default}
DataPreps == {"None", "pca", "other"}
Modes == {"deterministic", "random"}

\* a regression dataset is loaded, no data module constructed
InitPCA ==
    /\ labels \in PCALabelSets
    /\ height = 8 /\ width = 8
    /\ dk_call = NoCall
    /\ output_shape = dataset_output_shape(height, width, downsample_factor_default)
    /\ label_heatmaps = NoCall
    /\ torch_heatmap = NoCall /\ SubPixMax = NoCall
    /\ og_run = NoCall /\ torch_run = NoCall
    /\ InitNoModule
    /\ dataset_call = NoCall
    /\ loader_call = NoCall
    /\ InitNoRun

\* UnlabeledDataModule(dataset, video_paths_list, use_deterministic, ...,
\* specialized_dataprep, loss_param_dict); with_loss_params is FALSE for
\* loss_param_dict=None, split is what random_split deals
UnlabeledDataModule(use_deterministic, specialized_dataprep, with_loss_params, split) ==
    LET subs == base_setup(use_deterministic, NoCall, split)
        lpd == IF with_loss_params THEN [pca |-> NoCall] ELSE NoCall
        done == computePCA_params(labels, subs, lpd, components_to_keep_default,
                                  empirical_epsilon_percentile_default)
    IN  /\ datamodule.class = "none"
        /\ datamodule' = [class |-> "UnlabeledDataModule",
                           use_deterministic |-> use_deterministic,
                           specialized_dataprep |-> specialized_dataprep,
                           loss_param_dict_given |-> with_loss_params]
        /\ subsets' = subs
        /\ pca_param_dict' = pca_param_dict
        /\ IF specialized_dataprep = "None"
           THEN /\ error' = "TypeError"
                /\ loss_param_dict' = lpd
                /\ pca_call' = pca_call
           ELSE IF specialized_dataprep = "pca"
           THEN /\ error' = done.error
                /\ loss_param_dict' = done.loss_param_dict
                /\ pca_call' = IF done.pca = NoCall THEN pca_call
                               ELSE [components_to_keep |-> components_to_keep_default,
                                     empirical_epsilon_percentile |->
                                         empirical_epsilon_percentile_default,
                                     pca |-> done.pca, report |-> done.report]
           ELSE /\ error' = "none"
                /\ loss_param_dict' = lpd
                /\ pca_call' = pca_call
        /\ UNCHANGED <<dataset_vars, dk_call, extract_vars,
                   train_vars, script_vars, split_call, loader_call>>

\* datamodule.computePCA_params(components_to_keep, empirical_epsilon_percentile)
ComputePCA_params(components_to_keep, empirical_epsilon_percentile) ==
    LET done == computePCA_params(labels, subsets, loss_param_dict, components_to_keep,
                                  empirical_epsilon_percentile)
    IN  /\ datamodule.class = "UnlabeledDataModule"
        /\ error = "none"
        /\ error' = done.error
        /\ loss_param_dict' = done.loss_param_dict
        /\ pca_call' = IF done.pca = NoCall THEN pca_call
                       ELSE [components_to_keep |-> components_to_keep,
                             empirical_epsilon_percentile |-> empirical_epsilon_percentile,
                             pca |-> done.pca, report |-> done.report]
        /\ UNCHANGED <<dataset_vars, dk_call, extract_vars, datamodule, subsets,
                       pca_param_dict,
                   train_vars, script_vars, split_call, loader_call>>

\* TrackingDataModule(dataset, mode, ..., use_unlabeled_frames)
TrackingDataModule(mode, use_unlabeled_frames) ==
    /\ datamodule.class = "none"
    /\ datamodule' = [class |-> "TrackingDataModule", mode |-> mode,
                      use_unlabeled_frames |-> use_unlabeled_frames,
                      setup_done |-> FALSE,
                      semi_supervised_loader |-> FALSE]
    /\ UNCHANGED <<dataset_vars, dk_call, extract_vars, subsets, loss_param_dict,
                   pca_param_dict, pca_call, error,
                   train_vars, script_vars, split_call, loader_call>>

\* datamodule.setup(): deterministic mode returns before the split
TrackingSetup(split) ==
    /\ datamodule.class = "TrackingDataModule"
    /\ error = "none"
    /\ ~datamodule.setup_done
    /\ datamodule' = [datamodule EXCEPT !.setup_done = TRUE]
    /\ subsets' = tracking_setup(datamodule.mode, subsets, split)
    /\ UNCHANGED <<dataset_vars, dk_call, extract_vars, loss_param_dict,
                   pca_param_dict, pca_call, error,
                   train_vars, script_vars, split_call, loader_call>>

\* datamodule.computePPCA_params(components_to_keep, empirical_epsilon_percentile)
ComputePPCA_params(components_to_keep, empirical_epsilon_percentile) ==
    LET done == computePPCA_params(labels, subsets, pca_param_dict, components_to_keep,
                                   empirical_epsilon_percentile)
    IN  /\ datamodule.class = "TrackingDataModule"
        /\ error = "none"
        /\ error' = done.error
        /\ pca_param_dict' = done.pca_param_dict
        /\ pca_call' = IF done.pca = NoCall THEN pca_call
                       ELSE [components_to_keep |-> components_to_keep,
                             empirical_epsilon_percentile |-> empirical_epsilon_percentile,
                             pca |-> done.pca, report |-> done.report]
        /\ UNCHANGED <<dataset_vars, dk_call, extract_vars, datamodule, subsets,
                       loss_param_dict,
                   train_vars, script_vars, split_call, loader_call>>

NextPCA ==
    \/ \E use_deterministic \in BOOLEAN, specialized_dataprep \in DataPreps,
          with_loss_params \in BOOLEAN,
          split \in random_split(Len(labels), split_sizes_from_probabilities(Len(labels))) :
            UnlabeledDataModule(use_deterministic, specialized_dataprep, with_loss_params,
                                split)
    \/ \E components_to_keep \in ComponentsToKeep, percentile \in Percentiles :
            ComputePCA_params(components_to_keep, percentile)
    \/ \E mode \in Modes, use_unlabeled_frames \in BOOLEAN :
            TrackingDataModule(mode, use_unlabeled_frames)
    \/ \E split \in random_split(Len(labels), tracking_split_sizes(Len(labels))) :
            TrackingSetup(split)
    \/ \E components_to_keep \in ComponentsToKeep, percentile \in Percentiles :
            ComputePPCA_params(components_to_keep, percentile)

SpecPCA == InitPCA /\ [][NextPCA]_vars

(***************************************************************************)
(* The sizes TrackingDataModule.setup computes, for datasets of every      *)
(* length up to MaxDatalen.                                                *)
(***************************************************************************)
MaxDatalen == 60

\* a dataset of some length is loaded
InitSplit ==
    /\ \E datalen \in 0..MaxDatalen :
            labels = [f \in 1..datalen |-> PCALabelRow(f, "labelled")]
    /\ height = 8 /\ width = 8
    /\ dk_call = NoCall
    /\ output_shape = dataset_output_shape(height, width, downsample_factor_default)
    /\ label_heatmaps = NoCall
    /\ torch_heatmap = NoCall /\ SubPixMax = NoCall
    /\ og_run = NoCall /\ torch_run = NoCall
    /\ InitNoModule
    /\ dataset_call = NoCall
    /\ loader_call = NoCall
    /\ InitNoRun

\* setup() in a mode other than "deterministic", up to the call of random_split
SetupSizes ==
    /\ split_call = NoCall
    /\ split_call' = [datalen |-> Len(labels), sizes |-> tracking_split_sizes(Len(labels))]
    /\ UNCHANGED <<dataset_vars, dk_call, extract_vars, module_vars, train_vars,
                   script_vars, loader_call>>

NextSplit == SetupSizes

SpecSplit == InitSplit /\ [][NextSplit]_vars

(***************************************************************************)
(* A data module is constructed and set up and its dataloader methods are  *)
(* called, in any order.                                                   *)
(***************************************************************************)
\* the dataset of the data module is the one InitPCA describes

\* BaseDataModule(dataset, use_deterministic)
BaseDataModule(use_deterministic) ==
    /\ datamodule.class = "none"
    /\ datamodule' = [class |-> "BaseDataModule",
                      use_deterministic |-> use_deterministic,
                      setup_done |-> FALSE]
    /\ UNCHANGED <<dataset_vars, dk_call, extract_vars, subsets, loss_param_dict,
                   pca_param_dict, pca_call, error,
                   train_vars, script_vars, split_call, loader_call>>

\* datamodule.setup() of a BaseDataModule
BaseSetup(split) ==
    /\ datamodule.class = "BaseDataModule"
    /\ ~datamodule.setup_done
    /\ datamodule' = [datamodule EXCEPT !.setup_done = TRUE]
    /\ subsets' = base_setup(datamodule.use_deterministic, subsets, split)
    /\ UNCHANGED <<dataset_vars, dk_call, extract_vars, loss_param_dict,
                   pca_param_dict, pca_call, error,
                   train_vars, script_vars, split_call, loader_call>>

\* datamodule.setup_unlabeled(video_path) of a TrackingDataModule
SetupUnlabeled ==
    /\ datamodule.class = "TrackingDataModule"
    /\ ~datamodule.semi_supervised_loader
    /\ datamodule' = [datamodule EXCEPT !.semi_supervised_loader = TRUE]
    /\ UNCHANGED <<dataset_vars, dk_call, extract_vars, subsets, loss_param_dict,
                   pca_param_dict, pca_call, error,
                   train_vars, script_vars, split_call, loader_call>>

\* datamodule.train_dataloader()
TrainDataloader ==
    /\ datamodule.class \in {"BaseDataModule", "TrackingDataModule"}
    /\ loader_call' = [name |-> "train_dataloader",
                       datamodule |-> datamodule, subsets |-> subsets,
                       out |-> train_dataloader(datamodule, subsets)]
    /\ UNCHANGED <<dataset_vars, dk_call, extract_vars, module_vars,
                   train_vars, script_vars, split_call>>

\* datamodule.val_dataloader()
ValDataloader ==
    /\ datamodule.class \in {"BaseDataModule", "TrackingDataModule"}
    /\ loader_call' = [name |-> "val_dataloader",
                       datamodule |-> datamodule, subsets |-> subsets,
                       out |-> val_dataloader(datamodule, subsets)]
    /\ UNCHANGED <<dataset_vars, dk_call, extract_vars, module_vars,
                   train_vars, script_vars, split_call>>

\* datamodule.test_dataloader()
TestDataloader ==
    /\ datamodule.class \in {"BaseDataModule", "TrackingDataModule"}
    /\ loader_call' = [name |-> "test_dataloader",
                       datamodule |-> datamodule, subsets |-> subsets,
                       out |-> test_dataloader(datamodule, subsets)]
    /\ UNCHANGED <<dataset_vars, dk_call, extract_vars, module_vars,
                   train_vars, script_vars, split_call>>

NextLoaders ==
    \/ \E use_deterministic \in BOOLEAN : BaseDataModule(use_deterministic)
    \/ \E split \in random_split(Len(labels), split_sizes_from_probabilities(Len(labels))) :
            BaseSetup(split)
    \/ \E mode \in Modes, use_unlabeled_frames \in BOOLEAN :
            TrackingDataModule(mode, use_unlabeled_frames)
    \/ \E split \in random_split(Len(labels), tracking_split_sizes(Len(labels))) :
            TrackingSetup(split)
    \/ SetupUnlabeled
    \/ TrainDataloader
    \/ ValDataloader
    \/ TestDataloader

SpecLoaders == InitPCA /\ [][NextLoaders]_vars

(***************************************************************************)
(* A script that builds the pipeline from a configuration with the         *)
(* functions of utils/scripts.py, or runs train() of train_hydra.py.       *)
(***************************************************************************)
ModelTypes == {"regression", "heatmap", "regresion", "graph"}
LossLists == { <<>>, <<"pca_multiview">>, <<"unimodal_mse">>, <<"temporal", "unimodal_mse">> }
GpuIds == { [is_int |-> TRUE, devices |-> <<0>>], [is_int |-> FALSE, devices |-> <<0, 1>>] }
ConfiguredLosses == {"pca_multiview", "unimodal_mse", "unimodal_wasserstein", "temporal"}

\* cfg.data.image_resize_dims as <<height, width>> and cfg.data.downsample_factor
ResizeDims == { <<128, 128>>, <<128, 100>>, <<100, 128>>, <<256, 128>> }
DownsampleFactors == {2, 3}

Configs ==
    [model_type : ModelTypes,
     heatmap_loss_type : {"mse"},
     losses_to_use : LossLists,
     semi_supervised : BOOLEAN,
     gpu_id : GpuIds,
     losses : {[name \in ConfiguredLosses |-> {"log_weight"}]},
     image_resize_dims : ResizeDims,
     downsample_factor : DownsampleFactors]

NothingBuilt ==
    [dataset |-> "none", data_module |-> "none", loss_factories |-> <<>>,
     model |-> "none", raised |-> "none", fit |-> FALSE, called |-> "none"]

\* a configuration is loaded, nothing is built
InitScripts ==
    /\ labels = [f \in 1..PCAFrames |-> PCALabelRow(f, "labelled")]
    /\ height = 8 /\ width = 8
    /\ dk_call = NoCall
    /\ output_shape = dataset_output_shape(height, width, downsample_factor_default)
    /\ label_heatmaps = NoCall
    /\ torch_heatmap = NoCall /\ SubPixMax = NoCall
    /\ og_run = NoCall /\ torch_run = NoCall
    /\ InitNoModule
    /\ dataset_call = NoCall
    /\ loader_call = NoCall
    /\ model = NoCall /\ step_call = NoCall /\ split_call = NoCall
    /\ cfg \in Configs
    /\ built = NothingBuilt

\* dataset = get_dataset(cfg, data_dir, imgaug_transform)
GetDataset ==
    LET out == get_dataset(cfg)
    IN  /\ built.raised = "none" /\ built.called = "none"
        /\ built' = [built EXCEPT !.dataset = out.dataset, !.raised = out.raised,
                                  !.called = "get_dataset"]
        /\ UNCHANGED <<dataset_vars, dk_call, extract_vars, module_vars, train_vars, cfg,
                       split_call, loader_call>>

\* data_module = get_datamodule(cfg, dataset, video_dir)
GetDatamodule ==
    LET out == get_datamodule(cfg, built.dataset)
    IN  /\ built.raised = "none" /\ built.called = "get_dataset"
        /\ built' = [built EXCEPT !.data_module = out.data_module, !.raised = out.raised,
                                  !.called = "get_datamodule"]
        /\ UNCHANGED <<dataset_vars, dk_call, extract_vars, module_vars, train_vars, cfg,
                       split_call, loader_call>>

\* loss_factories = get_loss_factories(cfg, data_module)
GetLossFactories ==
    LET out == get_loss_factories(cfg)
    IN  /\ built.raised = "none" /\ built.called = "get_datamodule"
        /\ built' = [built EXCEPT !.loss_factories = out.loss_factories,
                                  !.raised = out.raised,
                                  !.called = "get_loss_factories"]
        /\ cfg' = [cfg EXCEPT !.losses = out.losses]
        /\ UNCHANGED <<dataset_vars, dk_call, extract_vars, module_vars, train_vars,
                       split_call, loader_call>>

\* model = get_model(cfg, data_module, loss_factories), after the other
\* builders or on its own
GetModel ==
    LET out == get_model(cfg)
    IN  /\ built.called \in {"none", "get_loss_factories"}
        /\ built.raised = "none"
        /\ built' = [built EXCEPT !.model = out.model, !.raised = out.raised,
                                  !.called = "get_model"]
        /\ UNCHANGED <<dataset_vars, dk_call, extract_vars, module_vars, train_vars, cfg,
                       split_call, loader_call>>

\* train(cfg)
Train(datamodule_raises) ==
    LET out == train(cfg, datamodule_raises)
    IN  /\ built.raised = "none" /\ built.called = "none"
        /\ built' = [built EXCEPT !.dataset = out.dataset,
                                  !.data_module = out.data_module,
                                  !.model = out.model, !.raised = out.raised,
                                  !.fit = out.fit, !.called = "train"]
        /\ UNCHANGED <<dataset_vars, dk_call, extract_vars, module_vars, train_vars, cfg,
                       split_call, loader_call>>

NextScripts ==
    \/ GetDataset
    \/ GetDatamodule
    \/ GetLossFactories
    \/ GetModel
    \/ \E datamodule_raises \in {"none", "ValueError"} : Train(datamodule_raises)

SpecScripts == InitScripts /\ [][NextScripts]_vars

(***************************************************************************)
(* Construction of the heatmap dataset and of a tracker from a            *)
(* configuration: the transform resizes the images to                      *)
(* cfg.data.image_resize_dims, the dataset and the tracker get             *)
(* cfg.data.downsample_factor.                                             *)
(***************************************************************************)
BuildConfigs ==
    [model_type : {"heatmap"},
     heatmap_loss_type : {"mse"},
     losses_to_use : { <<>>, <<"unimodal_mse">> },
     semi_supervised : {TRUE},
     gpu_id : {[is_int |-> TRUE, devices |-> <<0>>]},
     losses : {[name \in ConfiguredLosses |-> {"log_weight"}]},
     image_resize_dims : ResizeDims,
     downsample_factor : DownsampleFactors]

\* the csv is read and the transform is known, nothing is constructed
InitBuild ==
    /\ labels \in LabelSets
    /\ cfg \in BuildConfigs
    /\ height = cfg.image_resize_dims[1] /\ width = cfg.image_resize_dims[2]
    /\ dk_call = NoCall
    /\ output_shape = NoCall
    /\ label_heatmaps = NoCall
    /\ torch_heatmap = NoCall /\ SubPixMax = NoCall
    /\ og_run = NoCall /\ torch_run = NoCall
    /\ InitNoModule
    /\ dataset_call = NoCall
    /\ loader_call = NoCall
    /\ model = NoCall /\ step_call = NoCall /\ split_call = NoCall
    /\ built = NothingBuilt

\* DLCHeatmapDataset(root_directory, csv_path, header_rows, imgaug_transform,
\*                   noNans=noNans, downsample_factor=cfg.data.downsample_factor)
DLCHeatmapDataset(noNans) ==
    LET out == dataset_init(labels, height, width, noNans, cfg.downsample_factor)
    IN  /\ dataset_call = NoCall
        /\ dataset_call' = [raised |-> out.raised,
                            message_printed |-> out.message_printed,
                            noNans |-> out.noNans,
                            csv_labels |-> out.csv_labels,
                            fully_labeled_idxs |-> out.fully_labeled_idxs,
                            downsample_factor |-> out.downsample_factor]
        /\ labels' = out.labels
        /\ output_shape' = out.output_shape
        /\ label_heatmaps' = out.label_heatmaps
        /\ UNCHANGED <<height, width, dk_call, extract_vars, module_vars, train_vars,
                       script_vars, split_call, loader_call>>

TrackerClasses == {"HeatmapTracker", "SemiSupervisedHeatmapTracker"}

\* HeatmapTracker(...) or SemiSupervisedHeatmapTracker(...) with
\* downsample_factor=cfg.data.downsample_factor and the output_shape of the
\* dataset, followed by a read of its SubPixMax
BuildTracker(class, threshold, confidence_scale, upsample_factor) ==
    LET tracker == IF class = "HeatmapTracker"
                   THEN heatmap_tracker_init(cfg.downsample_factor, output_shape,
                                             upsample_factor, confidence_scale, threshold)
                   ELSE semi_supervised_heatmap_tracker_init(
                            cfg.downsample_factor, output_shape, upsample_factor,
                            confidence_scale, threshold)
    IN  /\ dataset_call # NoCall
        /\ dataset_call.raised = "none"
        /\ model = NoCall
        /\ model' = [tracker |-> tracker,
                     given |-> [output_shape |-> output_shape,
                                upsample_factor |-> upsample_factor,
                                confidence_scale |-> confidence_scale,
                                threshold |-> threshold]]
        /\ SubPixMax' = tracker_SubPixMax(tracker)
        /\ UNCHANGED <<dataset_vars, dk_call, torch_heatmap, og_run, torch_run,
                       module_vars, step_call, script_vars, split_call, loader_call>>

\* loss_factories = get_loss_factories(cfg, data_module) for the dataset
LossFactoriesOfDataset ==
    LET out == get_loss_factories(cfg)
    IN  /\ dataset_call # NoCall
        /\ dataset_call.raised = "none"
        /\ built.called = "none"
        /\ built' = [built EXCEPT !.loss_factories = out.loss_factories,
                                  !.raised = out.raised,
                                  !.called = "get_loss_factories"]
        /\ cfg' = [cfg EXCEPT !.losses = out.losses]
        /\ UNCHANGED <<dataset_vars, dk_call, extract_vars, module_vars, train_vars,
                       split_call, loader_call>>

NextBuild ==
    \/ \E noNans \in BOOLEAN : DLCHeatmapDataset(noNans)
    \/ \E class \in TrackerClasses, threshold \in Thresholds,
          confidence_scale \in ConfidenceScales, upsample_factor \in UpsampleFactors :
            BuildTracker(class, threshold, confidence_scale, upsample_factor)
    \/ LossFactoriesOfDataset

SpecBuild == InitBuild /\ [][NextBuild]_vars

(***************************************************************************)
(* A semi-supervised training run: the data module is constructed, then    *)
(* the tracker, then the trainer calls the steps.                          *)
(***************************************************************************)
LossNames == {"pca", "temporal"}
LossesToUse == { <<>>, <<"pca">>, <<"temporal">>, <<"pca", "temporal">> }
WeightChoices == { [pca |-> 1, temporal |-> 2], [pca |-> 2, temporal |-> 0] }
SupervisedLosses == {0, 3}
SupervisedRMSEs == {1, 5}

\* a row of labels as the network predicts it: x and y of every keypoint in turn
flat_keypoints(row) ==
    [i \in 1..(2 * Len(row)) |-> row[(i + 1) \div 2][((i - 1) % 2) + 1]]

\* the keypoints predicted on a batch of two unlabeled frames: near the
\* labels, with a keypoint the extractor did not find, and far from the labels
PredictedBatches ==
    { <<flat_keypoints(PCALabelRow(1, "labelled")), flat_keypoints(PCALabelRow(2, "labelled"))>>,
      <<flat_keypoints(PCALabelRow(3, "nan_x")), flat_keypoints(PCALabelRow(4, "labelled"))>>,
      <<[i \in 1..(2 * NumKeypoints) |-> 20 + i], [i \in 1..(2 * NumKeypoints) |-> 3 * i]>> }

\* what the network and the supervised losses give on a labeled batch
LabeledBatches == [supervised_loss : SupervisedLosses, supervised_rmse : SupervisedRMSEs]

Batches ==
    [predicted_us_keypoints : PredictedBatches,
     supervised_loss : SupervisedLosses,
     supervised_rmse : SupervisedRMSEs]

\* SemiSupervisedHeatmapTracker(num_targets, loss_params=datamod.loss_param_dict,
\* ..., semi_super_losses_to_use): weights are the weights the loss
\* parameters carry from the configuration
SemiSupervisedHeatmapTracker(semi_super_losses_to_use, weights) ==
    /\ datamodule.class = "UnlabeledDataModule"
    /\ error = "none"
    /\ model = NoCall
    /\ model' = [class |-> "SemiSupervisedHeatmapTracker",
                 loss_function_dict |-> semi_super_losses_to_use,
                 loss_params |->
                    IF loss_param_dict = NoCall THEN NoCall
                    ELSE [n \in LossNames |->
                            [weight |-> weights[n],
                             subspace |-> IF n = "pca" THEN loss_param_dict.pca
                                          ELSE NoCall]]]
    /\ UNCHANGED <<dataset_vars, dk_call, extract_vars, module_vars, step_call,
                   script_vars, split_call, loader_call>>

\* model.training_step(data_batch, batch_idx)
TrainingStep(batch) ==
    LET out == training_step(model, batch)
    IN  /\ model # NoCall
        /\ error = "none"
        /\ step_call' = [stage |-> "train", batch |-> batch, out |-> out]
        /\ error' = out.error
        /\ model' = [model EXCEPT !.loss_params = out.loss_params]
        /\ UNCHANGED <<dataset_vars, dk_call, extract_vars, datamodule, subsets,
                       loss_param_dict, pca_param_dict, pca_call, script_vars,
                       split_call, loader_call>>

\* model.validation_step / model.test_step: evaluate logs the supervised
\* loss and RMSE of the batch
EvaluateStep(stage, batch) ==
    /\ model # NoCall
    /\ error = "none"
    /\ step_call' = [stage |-> stage, batch |-> batch,
                     out |-> [error |-> "none",
                              supervised_loss |-> batch.supervised_loss,
                              supervised_rmse |-> batch.supervised_rmse]]
    /\ UNCHANGED <<dataset_vars, dk_call, extract_vars, module_vars, model,
                   script_vars, split_call, loader_call>>

NextTrain ==
    \/ \E use_deterministic \in BOOLEAN, specialized_dataprep \in DataPreps,
          with_loss_params \in BOOLEAN,
          split \in random_split(Len(labels), split_sizes_from_probabilities(Len(labels))) :
            UnlabeledDataModule(use_deterministic, specialized_dataprep, with_loss_params,
                                split)
    \/ \E semi_super_losses_to_use \in LossesToUse, weights \in WeightChoices :
            SemiSupervisedHeatmapTracker(semi_super_losses_to_use, weights)
    \/ \E batch \in Batches : TrainingStep(batch)
    \/ \E stage \in {"val", "test"}, batch \in LabeledBatches : EvaluateStep(stage, batch)

\* the dataset of the run: a frame misses at most the x of its first keypoint
InitTrain ==
    /\ InitPCA
    /\ \A f \in 1..Len(labels) : ~isnan(labels[f][NumKeypoints][2])

SpecTrain == InitTrain /\ [][NextTrain]_vars

(***************************************************************************)
(* Vocabulary of the properties of draw_keypoints.                         *)
(***************************************************************************)
Rows(call) == 1..call.output_shape[1]
Cols(call) == 1..call.output_shape[2]
Cells(call) == Rows(call) \X Cols(call)

Missing(keypoint) == keypoint[1] = NaN \/ keypoint[2] = NaN

SliceIsZero(call, idx) == \A c \in Cells(call) : call.confidence[c[1]][c[2]][idx] = 0

SliceOf(confidence, idx) ==
    [yy \in DOMAIN confidence |-> [xx \in DOMAIN confidence[yy] |-> confidence[yy][xx][idx]]]

\* the cells of a slice that hold its largest value
MaxCells(call, idx) ==
    {c \in Cells(call) :
        \A d \in Cells(call) :
            call.confidence[d[1]][d[2]][idx] <= call.confidence[c[1]][c[2]][idx]}

\* x' = x * output_width / original_width, y' = y * output_height /
\* original_height, in half grid cells
SpecX(call, idx) == (2 * call.keypoints[idx][1] * call.output_shape[2]) \div call.width
SpecY(call, idx) == (2 * call.keypoints[idx][2] * call.output_shape[1]) \div call.height

\* squared distance (quarter cells) of the rescaled keypoint to cell c, x
\* measured along the columns and y along the rows
SpecDist(call, idx, c) ==
    (2 * (c[2] - 1) - SpecX(call, idx)) * (2 * (c[2] - 1) - SpecX(call, idx))
  + (2 * (c[1] - 1) - SpecY(call, idx)) * (2 * (c[1] - 1) - SpecY(call, idx))

NearestCells(call, idx) ==
    {c \in Cells(call) : \A d \in Cells(call) : SpecDist(call, idx, c) <= SpecDist(call, idx, d)}

\* the rescaled coordinate lies halfway between two cells of the grid
HalfwayX(call, idx) ==
    SpecX(call, idx) % 2 = 1 /\ 0 < SpecX(call, idx) /\ SpecX(call, idx) < 2 * (call.output_shape[2] - 1)
HalfwayY(call, idx) ==
    SpecY(call, idx) % 2 = 1 /\ 0 < SpecY(call, idx) /\ SpecY(call, idx) < 2 * (call.output_shape[1] - 1)

\* the rescaled keypoint is exactly the centre of grid cell c
AtCentre(call, idx, c) ==
    /\ ~Missing(call.keypoints[idx])
    /\ SpecX(call, idx) = 2 * (c[2] - 1)
    /\ SpecY(call, idx) = 2 * (c[1] - 1)

(***************************************************************************)
(* C1: for every keypoint whose x or y coordinate is NaN the heatmap slice *)
(* of draw_keypoints is zero in every grid cell, and the slice of every    *)
(* other keypoint is the one drawn for that keypoint alone.                *)
(***************************************************************************)
C1_NaNSliceZero ==
    dk_call # NoCall =>
        \A i \in 1..Len(dk_call.keypoints) :
            Missing(dk_call.keypoints[i]) =>
                /\ SliceIsZero(dk_call, i)
                /\ \A j \in 1..Len(dk_call.keypoints) :
                      j # i =>
                        SliceOf(dk_call.confidence, j)
                          = SliceOf(draw_keypoints(<<dk_call.keypoints[j]>>, dk_call.height,
                                        dk_call.width, dk_call.output_shape,
                                        dk_call.sigma, dk_call.normalize), 1)

\* a keypoint with only y missing was drawn next to a keypoint that is visible
C1_Witness ==
    /\ dk_call # NoCall
    /\ \E i, j \in 1..Len(dk_call.keypoints) :
          /\ dk_call.keypoints[i][1] # NaN /\ dk_call.keypoints[i][2] = NaN
          /\ SliceIsZero(dk_call, i)
          /\ ~Missing(dk_call.keypoints[j])
          /\ ~SliceIsZero(dk_call, j)

(***************************************************************************)
(* C2 as stated: every keypoint slice is zero everywhere or has exactly    *)
(* one grid cell holding its maximum value.                                *)
(***************************************************************************)
C2_UniqueMaxCell ==
    dk_call # NoCall =>
        \A idx \in 1..Len(dk_call.keypoints) :
            SliceIsZero(dk_call, idx) \/ Cardinality(MaxCells(dk_call, idx)) = 1

(***************************************************************************)
(* C2 amended: every keypoint slice is zero everywhere or its maximum is   *)
(* held by exactly the grid cells nearest to the rescaled keypoint: one    *)
(* cell, except two or four cells when the rescaled coordinate is halfway  *)
(* between grid cells along one or both axes.                              *)
(***************************************************************************)
C2_MaxAtNearestCells ==
    dk_call # NoCall =>
        \A idx \in 1..Len(dk_call.keypoints) :
            \/ SliceIsZero(dk_call, idx)
            \/ /\ ~Missing(dk_call.keypoints[idx])
               /\ MaxCells(dk_call, idx) = NearestCells(dk_call, idx)
               /\ Cardinality(MaxCells(dk_call, idx)) =
                    (IF HalfwayX(dk_call, idx) THEN 2 ELSE 1)
                      * (IF HalfwayY(dk_call, idx) THEN 2 ELSE 1)

\* a keypoint halfway between two columns was drawn, two cells hold its
\* maximum, next to a keypoint halfway along both axes with four maximal cells
C2_Witness ==
    /\ dk_call # NoCall
    /\ \E i, j \in 1..Len(dk_call.keypoints) :
          /\ ~Missing(dk_call.keypoints[i])
          /\ HalfwayX(dk_call, i) /\ ~HalfwayY(dk_call, i)
          /\ Cardinality(MaxCells(dk_call, i)) = 2
          /\ ~SliceIsZero(dk_call, i)
          /\ ~Missing(dk_call.keypoints[j])
          /\ Cardinality(MaxCells(dk_call, j)) = 4
          /\ ~SliceIsZero(dk_call, j)

(***************************************************************************)
(* C3: x (column 0) is rescaled by output_width / original_width and       *)
(* indexes the grid columns, y (column 1) is rescaled by output_height /   *)
(* original_height and indexes the grid rows: a keypoint whose rescaled    *)
(* position is the centre of cell (row, column) has its single peak, the   *)
(* value exp(0), in that cell.                                             *)
(***************************************************************************)
C3_AxesNotSwapped ==
    dk_call # NoCall =>
        \A idx \in 1..Len(dk_call.keypoints) : \A c \in Cells(dk_call) :
            AtCentre(dk_call, idx, c) =>
                /\ MaxCells(dk_call, idx) = {c}
                /\ dk_call.confidence[c[1]][c[2]][idx]
                     = (IF dk_call.normalize THEN One
                        ELSE (One * 1000) \div ((dk_call.sigma * sqrt_2pi) \div 100))

\* a keypoint was drawn on a non-square grid, with different scale factors for
\* the two axes, at the centre of a cell that has no transposed cell
C3_Witness ==
    /\ dk_call # NoCall
    /\ dk_call.output_shape[1] # dk_call.output_shape[2]
    /\ dk_call.output_shape[1] * dk_call.width # dk_call.output_shape[2] * dk_call.height
    /\ \E idx \in 1..Len(dk_call.keypoints) : \E c \in Cells(dk_call) :
          /\ AtCentre(dk_call, idx, c)
          /\ c[1] # c[2]
          /\ MaxCells(dk_call, idx) = {c}

(***************************************************************************)
(* C4 as stated: the heatmap is divided by sigma * sqrt(2 * pi) exactly    *)
(* when normalize = True and is left with peak value 1 when normalize =    *)
(* False: the peak of a keypoint at a grid-cell centre is 1 / (sigma *     *)
(* sqrt(2 * pi)) if normalize, and 1 otherwise.                            *)
(***************************************************************************)
C4_DividesIffNormalize ==
    dk_call # NoCall =>
        \A idx \in 1..Len(dk_call.keypoints) : \A c \in Cells(dk_call) :
            AtCentre(dk_call, idx, c) =>
                dk_call.confidence[c[1]][c[2]][idx]
                    = (IF dk_call.normalize
                       THEN (One * 1000) \div ((dk_call.sigma * sqrt_2pi) \div 100)
                       ELSE One)

(***************************************************************************)
(* Vocabulary of the properties of SubPixelMaxima.run.                     *)
(***************************************************************************)
ZeroSlice(slice) == \A yy \in DOMAIN slice : \A xx \in DOMAIN slice[yy] : slice[yy][xx] = 0

\* x, y and confidence the run returned for keypoint k of batch item b
OutX(r, b, k) == r.out.keypoints[b][2 * k - 1]
OutY(r, b, k) == r.out.keypoints[b][2 * k]
OutConf(r, b, k) == r.out.confidence[b][k]

BatchOf(r) == 1..Len(r.heatmaps)
KeypointsOf(r, b) == 1..Len(r.heatmaps[b])

(***************************************************************************)
(* C5: for every [batch, keypoint] slice that is zero everywhere, run      *)
(* returns NaN for both coordinates and the confidence 0; in particular    *)
(* for every keypoint of the stored label heatmaps whose label has a NaN.  *)
(***************************************************************************)
C5_ZeroSliceOf(r) ==
    r # NoCall =>
        \A b \in BatchOf(r) : \A k \in KeypointsOf(r, b) :
            ZeroSlice(r.heatmaps[b][k]) =>
                OutX(r, b, k) = NaN /\ OutY(r, b, k) = NaN /\ OutConf(r, b, k) = 0

C5_ZeroSliceGivesNaN ==
    /\ C5_ZeroSliceOf(og_run)
    /\ C5_ZeroSliceOf(torch_run)
    /\ og_run # NoCall =>
          \A b \in BatchOf(og_run) : \A k \in KeypointsOf(og_run, b) :
              Missing(labels[b][k]) =>
                  /\ OutX(og_run, b, k) = NaN /\ OutY(og_run, b, k) = NaN
                  /\ OutConf(og_run, b, k) = 0

\* run, without a threshold, on the label heatmap of a frame with one keypoint
\* that misses only its x and one keypoint that was found
C5_Witness ==
    /\ og_run # NoCall
    /\ SubPixMax.threshold = None
    /\ \E b \in BatchOf(og_run) : \E i, j \in KeypointsOf(og_run, b) :
          /\ labels[b][i][1] = NaN /\ labels[b][i][2] # NaN
          /\ OutX(og_run, b, i) = NaN /\ OutConf(og_run, b, i) = 0
          /\ OutX(og_run, b, j) # NaN /\ OutConf(og_run, b, j) > 0

(***************************************************************************)
(* C6: with a threshold, every keypoint whose confidence is below it has   *)
(* both coordinates NaN, every keypoint at or above it keeps the           *)
(* coordinates of the run without threshold, and the confidences are those *)
(* of the run without threshold; a threshold above all confidences gives   *)
(* only NaN coordinates.                                                   *)
(***************************************************************************)
C6_ThresholdOf(r) ==
    (r # NoCall /\ SubPixMax.threshold # None) =>
        LET plain == run([SubPixMax EXCEPT !.threshold = None], r.heatmaps)
        IN  /\ r.out.confidence = plain.confidence
            /\ \A b \in BatchOf(r) : \A k \in KeypointsOf(r, b) :
                  IF OutConf(r, b, k) < SubPixMax.threshold
                  THEN OutX(r, b, k) = NaN /\ OutY(r, b, k) = NaN
                  ELSE /\ OutX(r, b, k) = plain.keypoints[b][2 * k - 1]
                       /\ OutY(r, b, k) = plain.keypoints[b][2 * k]
            /\ (\A b \in BatchOf(r) : \A k \in KeypointsOf(r, b) :
                    OutConf(r, b, k) < SubPixMax.threshold)
                 => \A b \in BatchOf(r) : \A i \in DOMAIN r.out.keypoints[b] :
                        r.out.keypoints[b][i] = NaN

C6_Threshold == C6_ThresholdOf(og_run) /\ C6_ThresholdOf(torch_run)

\* a run with a threshold that one keypoint meets exactly and another misses
C6_Witness ==
    /\ og_run # NoCall
    /\ SubPixMax.threshold # None
    /\ \E b \in BatchOf(og_run) : \E i, j \in KeypointsOf(og_run, b) :
          /\ OutConf(og_run, b, i) = SubPixMax.threshold
          /\ OutX(og_run, b, i) # NaN /\ OutY(og_run, b, i) # NaN
          /\ OutConf(og_run, b, j) > 0
          /\ OutConf(og_run, b, j) < SubPixMax.threshold
          /\ OutX(og_run, b, j) = NaN /\ OutY(og_run, b, j) = NaN

(***************************************************************************)
(* C7: on a batch of shape [B, K, H, W] run returns keypoints of shape     *)
(* [B, 2K], the shape of the flattened ground-truth keypoints, and         *)
(* confidences of shape [B, K].                                            *)
(***************************************************************************)
C7_ShapeOf(r) ==
    r # NoCall =>
        /\ DOMAIN r.out.keypoints = BatchOf(r)
        /\ DOMAIN r.out.confidence = BatchOf(r)
        /\ \A b \in BatchOf(r) :
              /\ DOMAIN r.out.keypoints[b] = 1..(2 * Len(r.heatmaps[b]))
              /\ DOMAIN r.out.confidence[b] = 1..Len(r.heatmaps[b])
              /\ \A i \in DOMAIN r.out.keypoints[b] : r.out.keypoints[b][i] \in Int
              /\ Len(r.out.keypoints[b]) = 2 * Len(labels[b])

C7_OutputShape == C7_ShapeOf(og_run) /\ C7_ShapeOf(torch_run)

\* a run on the whole dataset as one batch
C7_Witness ==
    /\ og_run # NoCall
    /\ Len(og_run.heatmaps) = NumFrames
    /\ Len(og_run.out.keypoints) = NumFrames
    /\ Len(og_run.out.keypoints[1]) = 2 * NumKeypoints

FeatureDim == 2 * num_views

\* the subspace a data module has stored, NoCall when it has stored none
StoredSubspace ==
    IF loss_param_dict # NoCall /\ loss_param_dict.pca # NoCall THEN loss_param_dict.pca
    ELSE pca_param_dict

\* the variance (times the squared number of samples) of the fitted data
\* along a direction
VarianceAlong(arr, axis) ==
    variance_of([smp \in 1..n_samples_of(arr) |->
                    SumSeq([feat \in 1..Len(arr) |-> arr[feat][smp] * axis[feat]])])

InSeq(q, v) == \E i \in 1..Len(q) : q[i] = v

\* the samples of the training frames as the routines reformat them
TrainingSamples == format_mouse_data(index_select(labels, subsets.train_set))

\* C9: whenever a subspace is stored, the principal axes of the fitted data
\* span the whole keypoint-geometry space in descending order of explained
\* variance, the kept eigenvectors are the first components_to_keep of them,
\* the discarded eigenvectors are all the remaining ones, no axis is in both
\* and none is left out of both.
C9_KeptFirstDiscardedRest ==
    StoredSubspace # NoCall =>
        LET fitted == pca_call.pca
            axes == fitted.principal_axes
            kept == StoredSubspace.kept_eigenvectors
            discarded == StoredSubspace.discarded_eigenvectors
        IN  /\ fitted.error = "none"
            /\ Len(axes) = FeatureDim
            /\ \A i \in 1..(Len(axes) - 1) :
                    VarianceAlong(fitted.fit_input, axes[i])
                        >= VarianceAlong(fitted.fit_input, axes[i + 1])
            /\ kept = SubSeq(axes, 1, pca_call.components_to_keep)
            /\ discarded = SubSeq(axes, pca_call.components_to_keep + 1, Len(axes))
            /\ \A i \in 1..Len(axes) : InSeq(kept, axes[i]) # InSeq(discarded, axes[i])

\* an UnlabeledDataModule fitted the PCA on training frames of which one had a
\* missing keypoint, the variances of the four axes differ, and it stored
\* three kept eigenvectors and one discarded
C9_Witness ==
    /\ datamodule.class = "UnlabeledDataModule"
    /\ StoredSubspace # NoCall
    /\ contains_nan(TrainingSamples)
    /\ Len(StoredSubspace.kept_eigenvectors) = 3
    /\ Len(StoredSubspace.discarded_eigenvectors) = 1
    /\ \A i \in 1..(FeatureDim - 1) :
            pca_call.pca.explained_variance[i] > pca_call.pca.explained_variance[i + 1]

\* C10: in both routines the data handed to the fit is the training samples
\* without those that contain a NaN; the fit never receives a NaN value.
C10_FitNeverReceivesNaN ==
    pca_call # NoCall =>
        /\ ~contains_nan(pca_call.pca.fit_input)
        /\ pca_call.pca.fit_input = clean_any_nans(TrainingSamples)

\* the magnitudes of the projections of the training samples onto a direction
TrainingProjections(direction) ==
    [smp \in 1..n_samples_of(TrainingSamples) |->
        abs_projection(TrainingSamples, smp, direction)]

\* C11: whenever a subspace is stored, epsilon has one entry per discarded
\* eigenvector, entry j is the configured percentile of the magnitudes of the
\* training samples' projections onto discarded eigenvector j, and every entry
\* is a number that is at least 0.
C11_EpsilonPerDiscarded ==
    StoredSubspace # NoCall =>
        LET discarded == StoredSubspace.discarded_eigenvectors
            epsilon == StoredSubspace.epsilon
        IN  /\ Len(epsilon) = Len(discarded)
            /\ \A j \in 1..Len(discarded) :
                    /\ epsilon[j] = np_percentile(TrainingProjections(discarded[j]),
                                                  pca_call.empirical_epsilon_percentile)
                    /\ ~isnan(epsilon[j])
                    /\ epsilon[j] >= 0

\* the training samples without those that contain a NaN
ValidSamples == clean_any_nans(TrainingSamples)

\* C12: when the PCA is fitted on fewer NaN-free training samples than the
\* geometry space has dimensions, the fit raises and the run ends: no
\* eigenvectors or epsilon are stored, no tracker is built and no step
\* computes a loss.
C12_TooFewSamplesAborts ==
    (subsets # NoCall /\ pca_call # NoCall /\ n_samples_of(ValidSamples) < FeatureDim) =>
        /\ pca_call.pca.error = "ValueError"
        /\ error = "ValueError"
        /\ StoredSubspace = NoCall
        /\ model = NoCall
        /\ step_call = NoCall

\* the constructor of an UnlabeledDataModule fitted the PCA on training frames
\* of which two miss a keypoint, leaving three samples for four dimensions
C12_Witness ==
    /\ datamodule.class = "UnlabeledDataModule"
    /\ subsets # NoCall
    /\ pca_call # NoCall
    /\ n_samples_of(TrainingSamples) = 5
    /\ n_samples_of(ValidSamples) = 3
    /\ error = "ValueError"

\* the labels of the frames of train_set, in ascending order of the frames
TrainLabels ==
    LET frames == subsets.train_set
        nth(i) == CHOOSE f \in frames : Cardinality({g \in frames : g < f}) = i - 1
    IN  [i \in 1..Cardinality(frames) |-> labels[nth(i)]]

\* C13: whenever a subspace is stored, the split has been made, the PCA was
\* fitted on the NaN-free samples of the training frames and of no other
\* frame, and epsilon is computed from the samples of the training frames.
C13_OnlyTrainingSplit ==
    StoredSubspace # NoCall =>
        /\ subsets # NoCall
        /\ pca_call.pca.fit_input = clean_any_nans(format_mouse_data(TrainLabels))
        /\ StoredSubspace.epsilon
               = epsilon_of(format_mouse_data(TrainLabels),
                            StoredSubspace.discarded_eigenvectors,
                            pca_call.empirical_epsilon_percentile)

\* a subspace is stored while validation or test frames exist, and fitting on
\* the labels of all frames would have used more samples
C13_Witness ==
    /\ StoredSubspace # NoCall
    /\ subsets.test_set # {}
    /\ n_samples_of(pca_call.pca.fit_input)
           < n_samples_of(clean_any_nans(format_mouse_data(labels)))

\* C14: once the data module is constructed no step of the run writes
\* loss_param_dict again, and after every step the subspace and epsilon the
\* tracker holds are the ones the data module stored at setup.
C14_SubspaceWrittenOnce ==
    [][/\ datamodule.class # "none" => loss_param_dict' = loss_param_dict
       /\ (model' # NoCall /\ model'.loss_params # NoCall) =>
              model'.loss_params["pca"].subspace = loss_param_dict'.pca]_vars

\* a training step has used the stored subspace and epsilon
C14_Witness ==
    /\ StoredSubspace # NoCall
    /\ step_call # NoCall
    /\ step_call.stage = "train"
    /\ step_call.out.error = "none"
    /\ InSeq(model.loss_function_dict, "pca")

\* C15: for every dataset length the three sizes setup passes to random_split
\* are round(0.8 * datalen) changed by -1, 0 or +1 and round(0.1 * datalen)
\* twice, none is negative, and they sum to the dataset length.
C15_SplitSizesSum ==
    split_call # NoCall =>
        LET datalen == split_call.datalen
            sizes == split_call.sizes
        IN  /\ sizes[1] - round(datalen, 8) \in {-1, 0, 1}
            /\ sizes[2] = round(datalen, 1)
            /\ sizes[3] = round(datalen, 1)
            /\ \A i \in 1..3 : sizes[i] >= 0
            /\ sizes[1] + sizes[2] + sizes[3] = datalen

\* fifteen frames: round(1.5) is 2 twice, the sum 16 is one too many and the
\* training size is lowered to 11
C15_Witness ==
    /\ split_call # NoCall
    /\ split_call.datalen = 15
    /\ split_call.sizes = <<11, 2, 2>>

\* the last step was a training step that returned a loss
TrainingStepDone ==
    /\ step_call # NoCall
    /\ step_call.stage = "train"
    /\ step_call.out.error = "none"

\* the weighted value of the i-th configured loss on the unlabeled predictions
WeightedLoss(i) ==
    LET name == model.loss_function_dict[i]
    IN  Mul(model.loss_params[name].weight,
            loss_func(name, step_call.batch.predicted_us_keypoints, model.loss_params[name]))

\* C16: the loss a training step returns is the supervised heatmap loss plus,
\* for each configured unsupervised loss, its weight times its value on the
\* keypoints predicted from the unlabeled frames; with none configured it is
\* the supervised loss; the supervised RMSE is no part of it.
C16_WeightedSum ==
    TrainingStepDone =>
        LET configured == 1..Len(model.loss_function_dict)
        IN  /\ step_call.out.loss
                  = Add(step_call.batch.supervised_loss,
                        SumNaN([i \in configured |-> WeightedLoss(i)]))
            /\ configured = {} => step_call.out.loss = step_call.batch.supervised_loss

\* a training step with both losses configured, each adding a positive amount
C16_Witness ==
    /\ TrainingStepDone
    /\ Len(model.loss_function_dict) = 2
    /\ \A i \in 1..2 : ~isnan(WeightedLoss(i)) /\ WeightedLoss(i) > 0
    /\ model.loss_params["temporal"].weight = 2
    /\ step_call.batch.supervised_rmse > 0

\* the last step was a training step that evaluated the PCA loss
PCALossDone == TrainingStepDone /\ InSeq(model.loss_function_dict, "pca")

\* the samples the PCA loss makes of the unlabeled predictions
PredictedSamples ==
    format_mouse_data(reshape_keypoints(step_call.batch.predicted_us_keypoints))

\* the magnitude of the projection of predicted sample smp onto discarded
\* eigenvector j, its epsilon, and its contribution to the PCA loss
ProjectionOf(j, smp) ==
    abs_projection(PredictedSamples, smp,
                   model.loss_params["pca"].subspace.discarded_eigenvectors[j])
EpsilonOf(j) == model.loss_params["pca"].subspace.epsilon[j]
ContributionOf(j, smp) ==
    pca_contributions(step_call.batch.predicted_us_keypoints,
                      model.loss_params["pca"].subspace.discarded_eigenvectors,
                      model.loss_params["pca"].subspace.epsilon)[j][smp]

PCAContributionIndices ==
    (1..Len(model.loss_params["pca"].subspace.discarded_eigenvectors))
        \X (1..n_samples_of(PredictedSamples))

\* C17: in a training step every contribution to the PCA loss is
\* max(0, |projection| - epsilon) of its discarded component; it is never
\* negative, and it is 0 whenever the magnitude is at most epsilon.
C17_HingeContribution ==
    PCALossDone =>
        \A c \in PCAContributionIndices :
            LET projection == ProjectionOf(c[1], c[2])
                epsilon == EpsilonOf(c[1])
                contribution == ContributionOf(c[1], c[2])
            IN  /\ ~isnan(contribution) => contribution >= 0
                /\ (~isnan(projection) /\ ~isnan(epsilon)) =>
                       /\ contribution = IF projection - epsilon > 0
                                         THEN projection - epsilon ELSE 0
                       /\ projection <= epsilon => contribution = 0

\* a training step in which one predicted sample lies within epsilon of the
\* subspace and contributes 0 and another lies outside and contributes the
\* excess
C17_Witness ==
    /\ PCALossDone
    /\ \E c \in PCAContributionIndices :
            /\ EpsilonOf(c[1]) > 0
            /\ ~isnan(ProjectionOf(c[1], c[2]))
            /\ ProjectionOf(c[1], c[2]) <= EpsilonOf(c[1])
            /\ ContributionOf(c[1], c[2]) = 0
    /\ \E c \in PCAContributionIndices :
            /\ ~isnan(EpsilonOf(c[1]))
            /\ ProjectionOf(c[1], c[2]) > EpsilonOf(c[1])
            /\ ContributionOf(c[1], c[2]) > 0

ValidModelTypes == {"regression", "heatmap"}

\* C18: when get_datamodule has been called with a gpu_id that is not a
\* single integer, it has raised NotImplementedError and has constructed no
\* data module, with and without unsupervised losses.
C18_MultiGpuRaises ==
    (built.called = "get_datamodule" /\ ~cfg.gpu_id.is_int) =>
        /\ built.raised = "NotImplementedError"
        /\ built.data_module = "none"

\* the dataset class and the tracker classes that belong to a model type
DatasetOfType(model_type) ==
    IF model_type = "regression" THEN "BaseTrackingDataset" ELSE "HeatmapDataset"

TrackersOfType(model_type) ==
    IF model_type = "regression"
    THEN {"RegressionTracker", "SemiSupervisedRegressionTracker"}
    ELSE {"HeatmapTracker", "SemiSupervisedHeatmapTracker"}

C20_ReportInformationalOnly ==
    (pca_call # NoCall /\ pca_call.report # NoCall) =>
        LET samples == IF datamodule.class = "UnlabeledDataModule"
                       THEN clean_any_nans(TrainingSamples)
                       ELSE TrainingSamples
            fresh == pca_fit(samples)
            kept == kept_of(fresh.components_, pca_call.components_to_keep)
            discarded == discarded_of(fresh.components_, pca_call.components_to_keep)
        IN  /\ pca_call.report.returned = "None"
            /\ pca_call.pca = fresh
            /\ StoredSubspace # NoCall =>
                /\ StoredSubspace.kept_eigenvectors = kept
                /\ StoredSubspace.discarded_eigenvectors = discarded
                /\ StoredSubspace.epsilon =
                        epsilon_of(TrainingSamples, discarded,
                                   pca_call.empirical_epsilon_percentile)
            /\ error = "TypeError" => loss_param_dict = NoCall

\* an UnlabeledDataModule printed the report of a fit with three kept
\* components whose ratios are not all equal and stored the subspace
C20_Witness ==
    /\ datamodule.class = "UnlabeledDataModule"
    /\ pca_call # NoCall /\ pca_call.report # NoCall
    /\ pca_call.components_to_keep = 3
    /\ pca_call.report.printed.explained_variance_ratio_[1]
            > pca_call.report.printed.explained_variance_ratio_[4]
    /\ pca_call.report.printed.total_explained_var > 0
    /\ StoredSubspace # NoCall
    /\ Len(StoredSubspace.discarded_eigenvectors) = 1

\* C21: when the dataset was constructed with noNans, the indices
\* get_fully_labeled_idxs returned are exactly those of the frames of the csv
\* in which no keypoint has a NaN in x or in y.
C21_FullyLabeledExact ==
    (dataset_call # NoCall /\ dataset_call.noNans /\ dataset_call.raised # "SystemExit") =>
        dataset_call.fully_labeled_idxs =
            {f \in 1..Len(dataset_call.csv_labels) :
                \A k \in 1..Len(dataset_call.csv_labels[f]) :
                    ~Missing(dataset_call.csv_labels[f][k])}

\* C22: when the transformed image height or width is not divisible by 128,
\* the constructor has printed the message and exited and no heatmap was
\* computed.
C22_IndivisibleRejected ==
    (dataset_call # NoCall /\ (height % 128 # 0 \/ width % 128 # 0)) =>
        /\ dataset_call.raised = "SystemExit"
        /\ dataset_call.message_printed
        /\ label_heatmaps = NoCall

\* C23: for a dataset of images whose height and width are divisible by 128
\* and a downsample factor 2 or 3, the output_shape times the
\* coordinate_scale of a tracker built for it is the image height and width,
\* and the downsampled dimensions get_loss_factories records are the
\* output_shape.
C23_ScaleRoundTrip ==
    (/\ dataset_call # NoCall /\ dataset_call.raised = "none"
     /\ height % 128 = 0 /\ width % 128 = 0
     /\ dataset_call.downsample_factor \in {2, 3}) =>
        /\ model # NoCall =>
            /\ SubPixMax.coordinate_scale = 2 ^ dataset_call.downsample_factor
            /\ output_shape[1] * SubPixMax.coordinate_scale = height
            /\ output_shape[2] * SubPixMax.coordinate_scale = width
        /\ (built.called = "get_loss_factories" /\ built.raised = "none") =>
            \A loss_name \in DOMAIN built.loss_factories.unsupervised :
                LET params == built.loss_factories.unsupervised[loss_name]
                IN  params # NoCall =>
                        /\ params.original_image_height = height
                        /\ params.original_image_width = width
                        /\ params.downsampled_image_height = output_shape[1]
                        /\ params.downsampled_image_width = output_shape[2]

\* a dataset of 256 x 128 images with downsample factor 3, a tracker built
\* for it and the loss factories of a unimodal loss
C23_Witness ==
    /\ dataset_call # NoCall /\ dataset_call.raised = "none"
    /\ height = 256 /\ width = 128
    /\ dataset_call.downsample_factor = 3
    /\ output_shape = <<32, 16>>
    /\ model # NoCall /\ SubPixMax.coordinate_scale = 8
    /\ built.called = "get_loss_factories" /\ built.raised = "none"
    /\ "unimodal_mse" \in DOMAIN built.loss_factories.unsupervised

\* C24: the extractor of a constructed tracker has the threshold, the
\* confidence_scale, the upsample_factor and the output_shape the
\* constructor was given, for both tracker classes.
C24_ExtractorAsConstructed ==
    model # NoCall =>
        /\ SubPixMax.threshold = model.given.threshold
        /\ SubPixMax.confidence_scale = model.given.confidence_scale
        /\ SubPixMax.upsample_factor = model.given.upsample_factor
        /\ SubPixMax.output_shape = model.given.output_shape

\* setup() of the constructed data module has returned
SetupReturned ==
    /\ datamodule.class \in {"BaseDataModule", "TrackingDataModule"}
    /\ datamodule.setup_done

\* C25: once setup() has returned, train_set, valid_set and test_set are
\* assigned and a dataloader method called after it does not raise, whatever
\* the mode of the data module.
C25_SetsAssignedAfterSetup ==
    /\ SetupReturned => subsets # NoCall
    /\ (loader_call # NoCall /\ loader_call.datamodule.setup_done
            /\ loader_call.name \in {"val_dataloader", "test_dataloader"}) =>
                loader_call.out.raised = "none"

\* C26: train_dataloader called on a TrackingDataModule after its
\* construction and a setup() that has split the data returns the dict with a
\* labeled and an unlabeled loader if use_unlabeled_frames is set and a single
\* labeled loader otherwise.
C26_UnlabeledLoaderReady ==
    (/\ loader_call # NoCall
     /\ loader_call.name = "train_dataloader"
     /\ loader_call.datamodule.class = "TrackingDataModule"
     /\ loader_call.datamodule.setup_done
     /\ loader_call.subsets # NoCall) =>
        /\ loader_call.out.raised = "none"
        /\ loader_call.out.loader.kind =
                IF loader_call.datamodule.use_unlabeled_frames THEN "dict"
                ELSE "DataLoader"

\* a step that constructs an UnlabeledDataModule
ConstructsUnlabeled ==
    datamodule.class = "none" /\ datamodule'.class = "UnlabeledDataModule"

\* C27: the construction of an UnlabeledDataModule with specialized_dataprep
\* and loss_param_dict left at None ends without an error, fits no PCA and
\* stores no subspace; a construction fits a PCA only if "pca" is requested,
\* and if it is requested the PCA is fitted unless the routine fails before
\* the fit.
C27_DefaultsConstruct ==
    [][ConstructsUnlabeled =>
            /\ (datamodule'.specialized_dataprep = "None"
                    /\ ~datamodule'.loss_param_dict_given) =>
                        /\ error' = "none"
                        /\ pca_call' = NoCall
                        /\ loss_param_dict' = NoCall
            /\ pca_call' # NoCall => datamodule'.specialized_dataprep = "pca"
            /\ datamodule'.specialized_dataprep = "pca" =>
                    (pca_call' # NoCall \/ error' = "AttributeError")]_vars

\* C28: whenever a subspace is stored, epsilon is the percentile of the
\* projections of the samples the PCA was fitted on, and if some training
\* label has a NaN keypoint and some sample has none, every entry of epsilon
\* is a number.
C28_EpsilonFromFittedSamples ==
    StoredSubspace # NoCall =>
        /\ StoredSubspace.epsilon =
                epsilon_of(pca_call.pca.fit_input,
                           StoredSubspace.discarded_eigenvectors,
                           pca_call.empirical_epsilon_percentile)
        /\ (contains_nan(TrainingSamples) /\ n_samples_of(ValidSamples) >= 1) =>
                \A j \in 1..Len(StoredSubspace.epsilon) :
                    ~isnan(StoredSubspace.epsilon[j])

\* C29: no step changes the configuration; in particular get_loss_factories
\* leaves every entry of cfg.losses with the keys it had.
C29_ConfigUnchanged == [][cfg'.losses = cfg.losses]_vars

\* C30: after a call of draw_keypoints the array of the caller holds the
\* coordinates that were passed, and a call with it now gives the heatmap the
\* call returned.
C30_CallerArrayKept ==
    dk_call # NoCall =>
        /\ labels[dk_call.idx] = dk_call.keypoints
        /\ draw_keypoints(labels[dk_call.idx], dk_call.height, dk_call.width,
                          dk_call.output_shape, dk_call.sigma, dk_call.normalize)
                = dk_call.confidence

\* draw_keypoints was called on a grid smaller than the image with a keypoint
\* whose coordinates the rescaling changes, and drew its Gaussian
C30_Witness ==
    /\ dk_call # NoCall
    /\ dk_call.output_shape[1] < dk_call.height
    /\ dk_call.output_shape[2] < dk_call.width
    /\ \E k \in 1..Len(dk_call.keypoints) :
            /\ ~Missing(dk_call.keypoints[k])
            /\ dk_call.keypoints[k][1] > 0 /\ dk_call.keypoints[k][2] > 0
            /\ ~SliceIsZero(dk_call, k)
    /\ labels[dk_call.idx] = dk_call.keypoints

====
